---------------------------- MODULE Spec2Model ----------------------------
(***************************************************************************)
(* A model of src/aggregator.py, the weekly drum-and-bass digest script.   *)
(*                                                                         *)
(* The script is one linear batch run (module-level code).  The model has  *)
(* one specification per part of the script:                               *)
(*                                                                         *)
(*   SpecWeek    week_bounds applied to a date                             *)
(*   SpecPeriod  period_str and fmt_date_range applied to a week           *)
(*   SpecDedupe  dedupe applied to a list of items                         *)
(*   SpecRefs    any sequence of add_ref calls and the reference list      *)
(*   SpecFilter  is_dnb_related, is_czsk_dnb and classify_section on a     *)
(*               text and a URL                                            *)
(*   SpecUrl     resolve_news_url, normalize_url and entry_to_item on a    *)
(*               link                                                      *)
(*   SpecEvents  scrape_world_events_window: page scrapers, Facebook,      *)
(*               merge                                                     *)
(*   FairSpecEvents  the same, with the steps of scrape_facebook_events    *)
(*               taken whenever they stay possible                         *)
(*   Spec        the run itself: feed loop, selection, rendering, writing  *)
(*                                                                         *)
(* Dates are proleptic Gregorian ordinals (date.toordinal()), an aware     *)
(* datetime is a number of slots counted in Europe/Prague local time, so   *)
(* that its local calendar date is the slot number divided by SlotsPerDay. *)
(* Strings are TLA+ strings, concatenated with \o as Python's + does.      *)
(***************************************************************************)
EXTENDS Integers, Sequences, FiniteSets, TLC

VARIABLES
    \* ---- week_bounds (SpecWeek)
    wk_d,           \* the date handed to week_bounds
    wk_res,         \* its result <<mon, sun>>, or <<>> before the call
    wk_per,         \* what period_str and fmt_date_range print for that
                    \* week, <<>> before the calls
    \* ---- dedupe (SpecDedupe)
    dd_lst,         \* the list handed to dedupe
    dd_maxn,        \* the cap handed to dedupe (0 models maxn=None)
    dd_out,         \* the list dedupe returned
    dd_done,        \* whether dedupe has returned
    \* ---- the filters (SpecFilter) and the link functions (SpecUrl)
    fl_in,          \* the title, summary and url handed to the filters
    fl_out,         \* what is_dnb_related, is_czsk_dnb and classify_section
                    \* returned, <<>> before the call
    url_in,         \* the link of a feed entry
    url_out,        \* what resolve_news_url, normalize_url and entry_to_item
                    \* made of it, <<>> before the call
    \* ---- citations (SpecRefs and Spec)
    all_refs,       \* list of <<label, url>>                   (line 355)
    ref_map,        \* dict url -> citation number              (line 355)
    ref_calls,      \* history: the url argument of every add_ref call
    ref_rets,       \* history: the number every add_ref call returned
    \* ---- scrape_world_events_window (SpecEvents)
    ev_pc,          \* "pages", "facebook", "merge", "done" ("idle" elsewhere)
    ev_token,       \* whether FACEBOOK_ACCESS_TOKEN is set
    ev_page,        \* index of the next listing page to scrape
    ev_combined,    \* combined: the events collected so far
    ev_fb_page,     \* index of the Facebook page being queried
    ev_fb_reqs,     \* requests issued for that page so far, counted up to
                    \* MaxFbRequests
    ev_fb_next,     \* next_url: "events" for the page's own URL, else the
                    \* paging.next of the last response
    ev_fb_events,   \* events: the list scrape_facebook_events builds
    ev_unique,      \* the list scrape_world_events_window returns
    \* ---- the run (Spec)
    pc,             \* "feeds", "select", "render", "write_md", "convert",
                    \* "write_html", "webhook", "done", "crashed" ("idle"
                    \* elsewhere)
    fi,             \* index in FEEDS of the next feed of the loop (line 1260)
    reqs,           \* requests issued so far, per URL
    feed_log,       \* history: per feed handled, the outcomes of its requests
                    \* and the entries the server held
    items_prev_world, items_prev_czsk, reddit_prev,     \* lines 353-354
    world_prev, cz_prev, rd_prev, cur_prev,             \* lines 1290-1325
    md,             \* markdown_out: the blocks of each section, <<>> before
    html_ready,     \* whether md_to_html has returned html_content
    md_file,        \* docs/index.md: "old", "new" or "partial"
    html_file,      \* docs/index.html: "old", "new" or "partial"
    payload,        \* the payload built for the webhook, <<>> for none
    failed_at,      \* the step whose exception ended the run, "" for none
    \* ---- the disk
    seen_cache      \* the seen-event cache file: records [url, first_seen];
                    \* no line of the script opens it

weekVars == <<wk_d, wk_res, wk_per>>
ddVars   == <<dd_lst, dd_maxn, dd_out, dd_done>>
refVars  == <<all_refs, ref_map, ref_calls, ref_rets>>
evVars   == <<ev_pc, ev_token, ev_page, ev_combined, ev_fb_page, ev_fb_reqs, ev_fb_next,
              ev_fb_events, ev_unique>>
listVars == <<items_prev_world, items_prev_czsk, reddit_prev>>
selVars  == <<world_prev, cz_prev, rd_prev, cur_prev>>
outVars  == <<md, html_ready, md_file, html_file>>
runVars  == <<pc, fi, reqs, feed_log, listVars, selVars, outVars, payload, failed_at>>
pureVars == <<fl_in, fl_out, url_in, url_out>>
vars     == <<weekVars, ddVars, refVars, evVars, runVars, pureVars, seen_cache>>

RECURSIVE SeqToSet(_)
SeqToSet(s) == IF s = <<>> THEN {} ELSE {Head(s)} \cup SeqToSet(Tail(s))

-----------------------------------------------------------------------------
(* Bounds of the model *)

\* number of consecutive dates explored by SpecWeek
NumDays == 60
\* slots per calendar day in which a timestamp can fall
SlotsPerDay == 2
\* longest list handed to dedupe in SpecDedupe
MaxLen == 3
\* number of add_ref calls explored by SpecRefs
MaxCalls == 4
\* number of Facebook pages queried in SpecEvents
NumFbPages == 1
\* most requests the Graph API is paged through for one Facebook page
MaxFbRequests == 2

-----------------------------------------------------------------------------
(* Time and period: lines 18-30 *)

\* date(2024, 1, 1).toordinal(): the first date SpecWeek explores
DateBase == 738886

\* date.weekday(): Monday is 0; ordinal 1 (0001-01-01) is a Monday
weekday(d) == (d + 6) % 7

\* the week counted from Sunday, as with isoweekday() % 7
week_bounds_sunday_first(d) ==
    LET sun == d - (d % 7) IN <<sun, sun + 6>>

\* def week_bounds(d): mon = d - timedelta(days=d.weekday()); sun = mon + 6
week_bounds(d) ==
    LET mon == d - weekday(d)
        sun == mon + 6
    IN  <<mon, sun>>

\* a datetime's calendar date in TZ
LocalDate(ts) == ts \div SlotsPerDay

\* within that takes the day after end_date as well
within_one_day_more(date_dt, start_date, end_date) ==
    LET d == LocalDate(date_dt)
    IN  start_date <= d /\ d <= end_date + 1

\* def within(date_dt, start_date, end_date)
within(date_dt, start_date, end_date) ==
    LET d == LocalDate(date_dt)
    IN  start_date <= d /\ d <= end_date

-----------------------------------------------------------------------------
(* Dates as text: lines 94-101 and 1254-1257 *)

\* the calendar of datetime.date: date.fromordinal(n) has the fields
\* year, month and day
IsLeap(y) == y % 4 = 0 /\ (y % 100 # 0 \/ y % 400 = 0)

DaysBeforeYear(y) ==
    (y - 1) * 365 + ((y - 1) \div 4) - ((y - 1) \div 100) + ((y - 1) \div 400)

DaysInMonth(y, m) ==
    IF m = 2 THEN (IF IsLeap(y) THEN 29 ELSE 28)
    ELSE IF m \in {4, 6, 9, 11} THEN 30 ELSE 31

RECURSIVE DaysBeforeMonth(_, _)
DaysBeforeMonth(y, m) ==
    IF m = 1 THEN 0 ELSE DaysBeforeMonth(y, m - 1) + DaysInMonth(y, m - 1)

year(n) ==
    CHOOSE y \in (n \div 366) .. (n \div 365 + 1) :
        DaysBeforeYear(y) < n /\ n <= DaysBeforeYear(y + 1)

month(n) ==
    CHOOSE m \in 1 .. 12 :
        /\ DaysBeforeYear(year(n)) + DaysBeforeMonth(year(n), m) < n
        /\ n <= DaysBeforeYear(year(n)) + DaysBeforeMonth(year(n), m)
                    + DaysInMonth(year(n), m)

day(n) == n - DaysBeforeYear(year(n)) - DaysBeforeMonth(year(n), month(n))

\* The text of a period is the sequence of the numbers it prints, in order;
\* the punctuation between them is fixed by how many there are:
\*   "{d1}.–{d2}. {m}. {y}"                  is <<d1, d2, m, y>>
\*   "{d1}. {m1}. {y1} – {d2}. {m2}. {y2}"    is <<d1, m1, y1, d2, m2, y2>>

\* def fmt_date_range(start, end)
fmt_date_range(start, end) ==
    LET s == IF start > end THEN end ELSE start
        e == IF start > end THEN start ELSE end
    IN  IF year(s) = year(e)
        THEN IF month(s) = month(e)
             THEN <<day(s), day(e), month(e), year(e)>>
             ELSE <<day(s), month(s), year(s), day(e), month(e), year(e)>>
        ELSE <<day(s), month(s), year(s), day(e), month(e), year(e)>>

\* def period_str(a, b): f"{a.day}.–{b.day}. {b.month}. {b.year}"
period_str(a, b) == <<day(a), day(b), month(b), year(b)>>

-----------------------------------------------------------------------------
(* SpecWeek: week_bounds on every date of a range *)

InitWeek ==
    /\ wk_d \in DateBase .. (DateBase + NumDays - 1)
    /\ wk_res = <<>>
    /\ wk_per = <<>>
    /\ dd_lst = <<>> /\ dd_maxn = 0 /\ dd_out = <<>> /\ dd_done = FALSE
    /\ all_refs = <<>> /\ ref_map = <<>> /\ ref_calls = <<>> /\ ref_rets = <<>>
    /\ ev_pc = "idle" /\ ev_token = FALSE /\ ev_page = 0 /\ ev_combined = <<>>
    /\ ev_fb_page = 0 /\ ev_fb_reqs = 0 /\ ev_fb_events = <<>> /\ ev_unique = <<>>
    /\ ev_fb_next = "events"
    /\ pc = "idle" /\ fi = 0 /\ reqs = <<>> /\ feed_log = <<>>
    /\ items_prev_world = <<>> /\ items_prev_czsk = <<>> /\ reddit_prev = <<>>
    /\ world_prev = <<>> /\ cz_prev = <<>> /\ rd_prev = <<>> /\ cur_prev = <<>>
    /\ md = <<>> /\ html_ready = FALSE /\ md_file = "old" /\ html_file = "old"
    /\ payload = <<>> /\ failed_at = "" /\ seen_cache = {}
    /\ fl_in = <<>> /\ fl_out = <<>> /\ url_in = <<>> /\ url_out = <<>>

CallWeekBounds ==
    /\ wk_res = <<>>
    /\ wk_res' = week_bounds(wk_d)
    /\ UNCHANGED <<wk_d, wk_per, ddVars, refVars, evVars, runVars, pureVars, seen_cache>>

-----------------------------------------------------------------------------
(* SpecPeriod: the period of the week of every date of a range *)

\* date(2024, 11, 26).toordinal(): the first date SpecPeriod explores; the
\* NumDays dates from it on run over the end of a month and of a year
PeriodBase == 739216

InitPeriod ==
    /\ wk_d \in PeriodBase .. (PeriodBase + NumDays - 1)
    /\ wk_res = <<>>
    /\ wk_per = <<>>
    /\ dd_lst = <<>> /\ dd_maxn = 0 /\ dd_out = <<>> /\ dd_done = FALSE
    /\ all_refs = <<>> /\ ref_map = <<>> /\ ref_calls = <<>> /\ ref_rets = <<>>
    /\ ev_pc = "idle" /\ ev_token = FALSE /\ ev_page = 0 /\ ev_combined = <<>>
    /\ ev_fb_page = 0 /\ ev_fb_reqs = 0 /\ ev_fb_events = <<>> /\ ev_unique = <<>>
    /\ ev_fb_next = "events"
    /\ pc = "idle" /\ fi = 0 /\ reqs = <<>> /\ feed_log = <<>>
    /\ items_prev_world = <<>> /\ items_prev_czsk = <<>> /\ reddit_prev = <<>>
    /\ world_prev = <<>> /\ cz_prev = <<>> /\ rd_prev = <<>> /\ cur_prev = <<>>
    /\ md = <<>> /\ html_ready = FALSE /\ md_file = "old" /\ html_file = "old"
    /\ payload = <<>> /\ failed_at = "" /\ seen_cache = {}
    /\ fl_in = <<>> /\ fl_out = <<>> /\ url_in = <<>> /\ url_out = <<>>

\* line 1257, PER_PREV = period_str(PREV_MON, PREV_SUN), next to what
\* fmt_date_range prints for the same two dates
CallPeriodStr ==
    /\ wk_res # <<>>
    /\ wk_per = <<>>
    /\ wk_per' = [period_str     |-> period_str(wk_res[1], wk_res[2]),
                  fmt_date_range |-> fmt_date_range(wk_res[1], wk_res[2])]
    /\ UNCHANGED <<wk_d, wk_res, ddVars, refVars, evVars, runVars, pureVars, seen_cache>>

-----------------------------------------------------------------------------
(* Deduplication: lines 349-351 and 385-392 *)

\* hashlib.sha1(raw).hexdigest()[:16]: the digest of a string.  Distinct
\* strings of the model get distinct digests; equal strings the same one.
sha1_hexdigest16(raw) == <<"sha1", raw>>

\* def uniq_key(it): raw = (it["title"] or "") + (it["link"] or "")
uniq_key(it) == sha1_hexdigest16(it.title \o it.link)

\* x placed behind every element that is at least as new: one step of a
\* stable descending sort
RECURSIVE InsertDesc(_, _)
InsertDesc(srt, x) ==
    IF srt = <<>> THEN <<x>>
    ELSE IF Head(srt).date >= x.date
         THEN <<Head(srt)>> \o InsertDesc(Tail(srt), x)
         ELSE <<x>> \o srt

\* sorted(lst, key=lambda x: x["date"], reverse=True): stable
RECURSIVE SortByDateDesc(_)
SortByDateDesc(lst) ==
    IF lst = <<>> THEN <<>>
    ELSE InsertDesc(SortByDateDesc(SubSeq(lst, 1, Len(lst) - 1)), lst[Len(lst)])

\* the for loop of dedupe over the sorted list
RECURSIVE DedupeLoop(_, _, _, _)
DedupeLoop(rest, seen, out, maxn) ==
    IF rest = <<>> THEN out
    ELSE LET it == Head(rest)
             k  == uniq_key(it)
         IN  IF k \in seen
             THEN DedupeLoop(Tail(rest), seen, out, maxn)
             ELSE LET out2 == Append(out, it)
                  IN  IF maxn # 0 /\ Len(out2) >= maxn
                      THEN out2
                      ELSE DedupeLoop(Tail(rest), seen \cup {k}, out2, maxn)

\* dedupe without the sort
dedupe_unsorted(lst, maxn) == DedupeLoop(lst, {}, <<>>, maxn)

\* def dedupe(lst, maxn=None); maxn = 0 stands for None (both are falsy)
dedupe(lst, maxn) == DedupeLoop(SortByDateDesc(lst), {}, <<>>, maxn)

-----------------------------------------------------------------------------
(* SpecDedupe: dedupe on every short list over a small set of items *)

\* number of distinct timestamps
DdDates == 2
\* largest cap handed to dedupe
MaxCap == 2

\* Titles and links whose concatenations can coincide although the pairs
\* differ ("ab" + "c" = "a" + "bc"), and pairs that differ in both.
DdTitles == {"a", "ab"}
DdLinks  == {"c", "bc"}
DdItems  == [title : DdTitles, link : DdLinks, date : 1 .. DdDates]

RECURSIVE SeqsUpTo(_, _)
SeqsUpTo(S, n) ==
    IF n = 0 THEN {<<>>}
    ELSE LET shorter == SeqsUpTo(S, n - 1)
         IN  shorter \cup {Append(s, x) : s \in {t \in shorter : Len(t) = n - 1}, x \in S}

InitDedupe ==
    /\ dd_lst \in SeqsUpTo(DdItems, MaxLen)
    /\ dd_maxn \in 0 .. MaxCap
    /\ dd_out = <<>>
    /\ dd_done = FALSE
    /\ wk_d = 0 /\ wk_res = <<>> /\ wk_per = <<>>
    /\ all_refs = <<>> /\ ref_map = <<>> /\ ref_calls = <<>> /\ ref_rets = <<>>
    /\ ev_pc = "idle" /\ ev_token = FALSE /\ ev_page = 0 /\ ev_combined = <<>>
    /\ ev_fb_page = 0 /\ ev_fb_reqs = 0 /\ ev_fb_events = <<>> /\ ev_unique = <<>>
    /\ ev_fb_next = "events"
    /\ pc = "idle" /\ fi = 0 /\ reqs = <<>> /\ feed_log = <<>>
    /\ items_prev_world = <<>> /\ items_prev_czsk = <<>> /\ reddit_prev = <<>>
    /\ world_prev = <<>> /\ cz_prev = <<>> /\ rd_prev = <<>> /\ cur_prev = <<>>
    /\ md = <<>> /\ html_ready = FALSE /\ md_file = "old" /\ html_file = "old"
    /\ payload = <<>> /\ failed_at = "" /\ seen_cache = {}
    /\ fl_in = <<>> /\ fl_out = <<>> /\ url_in = <<>> /\ url_out = <<>>

CallDedupe ==
    /\ ~dd_done
    /\ dd_out' = dedupe(dd_lst, dd_maxn)
    /\ dd_done' = TRUE
    /\ UNCHANGED <<dd_lst, dd_maxn, weekVars, refVars, evVars, runVars, pureVars, seen_cache>>

-----------------------------------------------------------------------------
(* Citations: lines 355-364 and 1347-1351 *)

\* add_ref without the "already cited" test
add_ref_always_new(url, label, refs, map) ==
    LET u   == IF url = "" THEN "about:blank" ELSE url
        idx == Len(refs) + 1
    IN  [all_refs |-> Append(refs, <<label, u>>),
         ref_map  |-> (u :> idx) @@ map,
         idx      |-> idx]

\* def add_ref(url, label): the globals after the call and the value returned
add_ref(url, label, refs, map) ==
    LET u == IF url = "" THEN "about:blank" ELSE url
    IN  IF u \in DOMAIN map
        THEN [all_refs |-> refs, ref_map |-> map, idx |-> map[u]]
        ELSE LET idx == Len(refs) + 1
             IN  [all_refs |-> Append(refs, <<label, u>>),
                  ref_map  |-> (u :> idx) @@ map,
                  idx      |-> idx]

\* refs_lines: "[i]: url" for i, (label, url) in enumerate(all_refs, start=1)
refs_lines(refs) == [i \in 1 .. Len(refs) |-> <<i, refs[i][2]>>]

-----------------------------------------------------------------------------
(* SpecRefs: any sequence of add_ref calls *)

RefUrls   == {"", "about:blank", "https://a/1", "https://b/2"}
RefLabels == {"A", "B"}

InitRefs ==
    /\ all_refs = <<>>
    /\ ref_map = <<>>
    /\ ref_calls = <<>>
    /\ ref_rets = <<>>
    /\ wk_d = 0 /\ wk_res = <<>> /\ wk_per = <<>>
    /\ dd_lst = <<>> /\ dd_maxn = 0 /\ dd_out = <<>> /\ dd_done = FALSE
    /\ ev_pc = "idle" /\ ev_token = FALSE /\ ev_page = 0 /\ ev_combined = <<>>
    /\ ev_fb_page = 0 /\ ev_fb_reqs = 0 /\ ev_fb_events = <<>> /\ ev_unique = <<>>
    /\ ev_fb_next = "events"
    /\ pc = "idle" /\ fi = 0 /\ reqs = <<>> /\ feed_log = <<>>
    /\ items_prev_world = <<>> /\ items_prev_czsk = <<>> /\ reddit_prev = <<>>
    /\ world_prev = <<>> /\ cz_prev = <<>> /\ rd_prev = <<>> /\ cur_prev = <<>>
    /\ md = <<>> /\ html_ready = FALSE /\ md_file = "old" /\ html_file = "old"
    /\ payload = <<>> /\ failed_at = "" /\ seen_cache = {}
    /\ fl_in = <<>> /\ fl_out = <<>> /\ url_in = <<>> /\ url_out = <<>>

CallAddRef ==
    /\ Len(ref_calls) < MaxCalls
    /\ \E url \in RefUrls, label \in RefLabels :
         LET r == add_ref(url, label, all_refs, ref_map)
         IN  /\ all_refs' = r.all_refs
             /\ ref_map' = r.ref_map
             /\ ref_calls' = Append(ref_calls, url)
             /\ ref_rets' = Append(ref_rets, r.idx)
    /\ UNCHANGED <<weekVars, ddVars, evVars, runVars, pureVars, seen_cache>>

-----------------------------------------------------------------------------
(* World events: lines 549-641 and 774-1168 *)

\* ensure_date_value returns None: a falsy value, no date
NoDate == 0

\* the window handed to scrape_world_events_window: a Monday..Sunday week
EvStart == week_bounds(DateBase)[1]
EvEnd   == week_bounds(DateBase)[2]

\* a raw date value of a page or of the Graph API: a timestamp on the given
\* day of the window, NoDate when the field is absent, Unparseable when
\* dtparse raises on it
Unparseable == -1
OnDay(k) == (EvStart + k) * SlotsPerDay + 1

\* def ensure_date_value(value): None for a missing or unparseable value,
\* else the calendar date in TZ
ensure_date_value(value) ==
    IF value = NoDate \/ value = Unparseable THEN NoDate ELSE LocalDate(value)

\* str.lower(), on the ASCII letters
LowerChar(c) ==
    CASE c = "A" -> "a" [] c = "B" -> "b" [] c = "C" -> "c" [] c = "D" -> "d"
      [] c = "E" -> "e" [] c = "F" -> "f" [] c = "G" -> "g" [] c = "H" -> "h"
      [] c = "I" -> "i" [] c = "J" -> "j" [] c = "K" -> "k" [] c = "L" -> "l"
      [] c = "M" -> "m" [] c = "N" -> "n" [] c = "O" -> "o" [] c = "P" -> "p"
      [] c = "Q" -> "q" [] c = "R" -> "r" [] c = "S" -> "s" [] c = "T" -> "t"
      [] c = "U" -> "u" [] c = "V" -> "v" [] c = "W" -> "w" [] c = "X" -> "x"
      [] c = "Y" -> "y" [] c = "Z" -> "z" [] OTHER -> c

RECURSIVE lower(_)
lower(str) ==
    IF str = "" THEN ""
    ELSE LowerChar(SubSeq(str, 1, 1)) \o lower(SubSeq(str, 2, Len(str)))

\* k in t, on strings
Contains(t, k) ==
    \E i \in 1 .. (Len(t) - Len(k) + 1) : SubSeq(t, i, i + Len(k) - 1) = k

\* the order of the lowercased titles of the model, as str comparison gives it
StrRank(str) ==
    CASE str = ""            -> 0
      [] str = "liquicity"   -> 1
      [] str = "local night" -> 2
      [] str = "rampage"     -> 3
      [] OTHER               -> 4

\* urljoin(base_url, raw_url) for a raw_url that is an absolute path, and
\* base_url itself for no raw_url.  A URL is its host and its path segments.
event_url(raw_url, base_host) ==
    IF raw_url # <<>> THEN [host |-> base_host, path |-> raw_url]
    ELSE [host |-> base_host, path |-> <<>>]

\* "/events" in urlparse(url).path
PathHasEvents(url) ==
    \E i \in 1 .. Len(url.path) :
        Len(url.path[i]) >= 6 /\ SubSeq(url.path[i], 1, 6) = "events"

\* build_event_from_raw without the Resident Advisor filter of lines 868-877
build_event_from_raw_no_ra_filter(raw, source, base_host) ==
    LET s0         == ensure_date_value(raw.start)
        e0         == ensure_date_value(raw.end)
        e1         == IF e0 # NoDate THEN e0 ELSE s0
        start_date == IF e1 < s0 THEN e1 ELSE s0
        end_date   == IF e1 < s0 THEN s0 ELSE e1
        url        == event_url(raw.url, base_host)
    IN  IF raw.name = "" \/ s0 = NoDate THEN <<>>
        ELSE << [title |-> raw.name, location |-> raw.location,
                 start_date |-> start_date, end_date |-> end_date,
                 url |-> url, source |-> source] >>

\* def build_event_from_raw(raw, source, base_url): <<>> stands for None,
\* <<ev>> for an event
build_event_from_raw(raw, source, base_host) ==
    LET s0         == ensure_date_value(raw.start)
        e0         == ensure_date_value(raw.end)
        e1         == IF e0 # NoDate THEN e0 ELSE s0
        start_date == IF e1 < s0 THEN e1 ELSE s0
        end_date   == IF e1 < s0 THEN s0 ELSE e1
        url        == event_url(raw.url, base_host)
    IN  IF raw.name = "" \/ s0 = NoDate THEN <<>>
        ELSE IF source = "Resident Advisor"
                /\ (~PathHasEvents(url) \/ raw.location = "")
        THEN <<>>
        ELSE << [title |-> raw.name, location |-> raw.location,
                 start_date |-> start_date, end_date |-> end_date,
                 url |-> url, source |-> source] >>

\* def extract_events_from_html: the events built from the records that
\* iterate_event_like yields
RECURSIVE extract_events(_, _, _)
extract_events(raws, source, base_host) ==
    IF raws = <<>> THEN <<>>
    ELSE build_event_from_raw(Head(raws), source, base_host)
            \o extract_events(Tail(raws), source, base_host)

\* def filter_world_events(events, start_date, end_date)
RECURSIVE filter_world_events(_, _, _)
filter_world_events(events, start_date, end_date) ==
    IF events = <<>> THEN <<>>
    ELSE LET ev   == Head(events)
             rest == filter_world_events(Tail(events), start_date, end_date)
         IN  IF ev.end_date < start_date \/ ev.start_date > end_date THEN rest
             ELSE IF ev.title = "" THEN rest
             ELSE IF ev.source = "Resident Advisor" /\ ev.location = "" THEN rest
             ELSE <<ev>> \o rest

\* def scrape_world_events_generic, inside the try of its caller
\* (scrape_resident_advisor_multi per URL, scrape_world_events_window per
\* scraper): a failed fetch gives html = "" and no event, an exception while
\* the records are built is caught by the caller and gives no event either
scrape_world_events_generic(outcome, raws, source, base_host, start_date, end_date) ==
    IF outcome = "ok"
    THEN filter_world_events(extract_events(raws, source, base_host), start_date, end_date)
    ELSE <<>>

\* the body of the "for ev in data_list" loop of scrape_facebook_events
facebook_event(ev, label, start_date, end_date) ==
    LET start_val      == ev.start_time
        end_val        == IF ev.end_time # NoDate THEN ev.end_time ELSE start_val
        start_date_val == ensure_date_value(start_val)
        e0             == ensure_date_value(end_val)
        end_date_val   == IF e0 # NoDate THEN e0 ELSE start_date_val
    IN  IF ev.name = "" THEN <<>>
        ELSE IF start_date_val = NoDate THEN <<>>
        ELSE IF end_date_val # NoDate /\ end_date_val < start_date THEN <<>>
        ELSE IF start_date_val > end_date THEN <<>>
        ELSE << [title |-> ev.name, location |-> ev.place,
                 start_date |-> start_date_val, end_date |-> end_date_val,
                 url |-> [host |-> "www.facebook.com", path |-> <<"events", ev.id>>],
                 source |-> "Facebook " \o label] >>

RECURSIVE facebook_events(_, _, _, _)
facebook_events(data_list, label, start_date, end_date) ==
    IF data_list = <<>> THEN <<>>
    ELSE facebook_event(Head(data_list), label, start_date, end_date)
            \o facebook_events(Tail(data_list), label, start_date, end_date)

\* the sort key of the merge: (start_date, title.lower())
EvBefore(a, b) ==
    \/ a.start_date < b.start_date
    \/ /\ a.start_date = b.start_date
       /\ StrRank(lower(a.title)) < StrRank(lower(b.title))

RECURSIVE InsertEvent(_, _)
InsertEvent(srt, x) ==
    IF srt = <<>> THEN <<x>>
    ELSE IF EvBefore(x, Head(srt)) THEN <<x>> \o srt
         ELSE <<Head(srt)>> \o InsertEvent(Tail(srt), x)

\* sorted(combined, key=...): stable, ascending
RECURSIVE SortEvents(_)
SortEvents(evs) ==
    IF evs = <<>> THEN <<>>
    ELSE InsertEvent(SortEvents(SubSeq(evs, 1, Len(evs) - 1)), evs[Len(evs)])

\* the dedupe key of the merge (str.strip() changes no string of the model)
EvKey(ev) == <<lower(ev.title), lower(ev.location), ev.start_date, ev.end_date>>

RECURSIVE UniqueEvents(_, _)
UniqueEvents(rest, seen) ==
    IF rest = <<>> THEN <<>>
    ELSE IF EvKey(Head(rest)) \in seen THEN UniqueEvents(Tail(rest), seen)
         ELSE <<Head(rest)>> \o UniqueEvents(Tail(rest), seen \cup {EvKey(Head(rest))})

\* the merge without the seen set of lines 1155 and 1164-1166
merge_events_keep_all(combined) == SortEvents(combined)

\* lines 1154-1168: the dedupe at the end of scrape_world_events_window
merge_events(combined) == UniqueEvents(SortEvents(combined), {})

-----------------------------------------------------------------------------
(* SpecEvents: one call of scrape_world_events_window(EvStart, EvEnd) *)

\* What the listing pages can hold: each record as iterate_event_like yields
\* it, with its name, start, end, location and the path of its own URL.
RaRecords1 ==
    << [name |-> "Rampage", start |-> OnDay(1), end |-> OnDay(2),
        location |-> "London", url |-> <<"events", "1">>],
       [name |-> "Local Night", start |-> OnDay(4), end |-> OnDay(2),
        location |-> "London", url |-> <<"events", "2">>],
       [name |-> "Liquicity", start |-> OnDay(3), end |-> NoDate,
        location |-> "", url |-> <<"events", "3">>] >>

RaRecords2 ==
    << [name |-> "RAMPAGE", start |-> OnDay(1), end |-> OnDay(2),
        location |-> "London", url |-> <<"events", "1">>],
       [name |-> "Liquicity", start |-> OnDay(3), end |-> NoDate,
        location |-> "London", url |-> <<>>] >>

PromoterRecords ==
    << [name |-> "Liquicity", start |-> OnDay(5), end |-> Unparseable,
        location |-> "", url |-> <<>>],
       [name |-> "Local Night", start |-> OnDay(8), end |-> NoDate,
        location |-> "London", url |-> <<"events", "8">>],
       [name |-> "", start |-> OnDay(2), end |-> OnDay(2),
        location |-> "London", url |-> <<"events", "9">>] >>

\* RA_LOCATIONS (two of its listing pages) and one promoter page, in the
\* order scrape_world_events_window visits them
EvPages ==
    << [source |-> "Resident Advisor", base |-> "ra.co", records |-> RaRecords1],
       [source |-> "Resident Advisor", base |-> "ra.co", records |-> RaRecords2],
       [source |-> "Hospitality", base |-> "hospitalitydnb.com",
        records |-> PromoterRecords] >>

\* What the Graph API can return for a page
FbRecords ==
    { [name |-> "Rampage", start_time |-> OnDay(1), end_time |-> OnDay(2),
       place |-> "London", id |-> "11"],
      [name |-> "Local Night", start_time |-> OnDay(4), end_time |-> OnDay(2),
       place |-> "", id |-> "12"],
      [name |-> "Liquicity", start_time |-> OnDay(-3), end_time |-> OnDay(-1),
       place |-> "", id |-> "13"] }

\* load_facebook_pages(): the labels of the configured pages
FbLabel(i) ==
    CASE i = 1 -> "Hospitality"
      [] i = 2 -> "Rampage"
      [] OTHER -> "Liquicity"

RECURSIVE Pick(_, _, _)
Pick(seq, S, i) ==
    IF i > Len(seq) THEN <<>>
    ELSE (IF i \in S THEN <<seq[i]>> ELSE <<>>) \o Pick(seq, S, i + 1)

\* every sub-list of seq, in the order of seq
SubLists(seq) == {Pick(seq, S, 1) : S \in SUBSET (1 .. Len(seq))}

InitEvents ==
    /\ ev_pc = "pages"
    /\ ev_token \in BOOLEAN
    /\ ev_page = 1
    /\ ev_combined = <<>>
    /\ ev_fb_page = 1
    /\ ev_fb_reqs = 0
    /\ ev_fb_next = "events"
    /\ ev_fb_events = <<>>
    /\ ev_unique = <<>>
    /\ wk_d = 0 /\ wk_res = <<>> /\ wk_per = <<>>
    /\ dd_lst = <<>> /\ dd_maxn = 0 /\ dd_out = <<>> /\ dd_done = FALSE
    /\ all_refs = <<>> /\ ref_map = <<>> /\ ref_calls = <<>> /\ ref_rets = <<>>
    /\ pc = "idle" /\ fi = 0 /\ reqs = <<>> /\ feed_log = <<>>
    /\ items_prev_world = <<>> /\ items_prev_czsk = <<>> /\ reddit_prev = <<>>
    /\ world_prev = <<>> /\ cz_prev = <<>> /\ rd_prev = <<>> /\ cur_prev = <<>>
    /\ md = <<>> /\ html_ready = FALSE /\ md_file = "old" /\ html_file = "old"
    /\ payload = <<>> /\ failed_at = "" /\ seen_cache = {}
    /\ fl_in = <<>> /\ fl_out = <<>> /\ url_in = <<>> /\ url_out = <<>>

\* one pass of the scraper loop (lines 1112-1131): the page is fetched and
\* parsed, its events are appended to combined.  iterate_event_like can come
\* to the same dict by more than one path (by its key and again among
\* obj.values()), so the records of a page can be yielded twice.
ScrapePage ==
    /\ ev_pc = "pages"
    /\ ev_page <= Len(EvPages)
    /\ LET pg == EvPages[ev_page]
       IN  \E outcome \in {"ok", "http_error", "raises"} :
           \E raws \in (IF outcome = "ok" THEN SubLists(pg.records) ELSE {<<>>}),
              twice \in BOOLEAN :
               ev_combined' = ev_combined \o
                   scrape_world_events_generic(outcome,
                                               IF twice THEN raws \o raws ELSE raws,
                                               pg.source, pg.base, EvStart, EvEnd)
    /\ ev_page' = ev_page + 1
    /\ UNCHANGED <<ev_pc, ev_token, ev_fb_page, ev_fb_reqs, ev_fb_next, ev_fb_events,
                   ev_unique>>
    /\ UNCHANGED <<weekVars, ddVars, refVars, runVars, pureVars, seen_cache>>

\* the scraper loop is over: scrape_facebook_events is called (line 1135)
PagesDone ==
    /\ ev_pc = "pages"
    /\ ev_page > Len(EvPages)
    /\ ev_pc' = "facebook"
    /\ UNCHANGED <<ev_token, ev_page, ev_combined, ev_fb_page, ev_fb_reqs, ev_fb_next,
                   ev_fb_events, ev_unique>>
    /\ UNCHANGED <<weekVars, ddVars, refVars, runVars, pureVars, seen_cache>>

\* lines 1033-1034: no token (or no page), no request
FacebookSkip ==
    /\ ev_pc = "facebook"
    /\ ~ev_token
    /\ ev_pc' = "merge"
    /\ UNCHANGED <<ev_token, ev_page, ev_combined, ev_fb_page, ev_fb_reqs, ev_fb_next,
                   ev_fb_events, ev_unique>>
    /\ UNCHANGED <<weekVars, ddVars, refVars, runVars, pureVars, seen_cache>>

\* what paging.next of a response of the Graph API can be, besides absent
FbCursors == {"after=1", "after=2"}

\* one pass of "while next_url" (lines 1053-1094): a request that fails ends
\* the page, a response appends its events and goes on with paging.next
\* while it names one.  The loop has no cap: the requests are counted up to
\* MaxFbRequests, and the responses after that many hold no event.
FacebookRequest ==
    /\ ev_pc = "facebook"
    /\ ev_token
    /\ ev_fb_page <= NumFbPages
    /\ \/ /\ ev_fb_page' = ev_fb_page + 1
          /\ ev_fb_reqs' = 0
          /\ ev_fb_next' = "events"
          /\ UNCHANGED ev_fb_events
       \/ \E data \in {<<>>} \cup {<<r>> : r \in FbRecords},
             next \in {""} \cup FbCursors :
             /\ data # <<>> => ev_fb_reqs < MaxFbRequests
             /\ ev_fb_events' = ev_fb_events \o
                   facebook_events(data, FbLabel(ev_fb_page), EvStart, EvEnd)
             /\ IF next # ""
                THEN /\ ev_fb_reqs' = IF ev_fb_reqs < MaxFbRequests
                                      THEN ev_fb_reqs + 1 ELSE ev_fb_reqs
                     /\ ev_fb_next' = next
                     /\ UNCHANGED ev_fb_page
                ELSE /\ ev_fb_reqs' = 0
                     /\ ev_fb_next' = "events"
                     /\ ev_fb_page' = ev_fb_page + 1
    /\ UNCHANGED <<ev_pc, ev_token, ev_page, ev_combined, ev_unique>>
    /\ UNCHANGED <<weekVars, ddVars, refVars, runVars, pureVars, seen_cache>>

\* scrape_facebook_events returns; lines 1138-1152 append its events
FacebookDone ==
    /\ ev_pc = "facebook"
    /\ ev_token
    /\ ev_fb_page > NumFbPages
    /\ ev_combined' = ev_combined \o ev_fb_events
    /\ ev_pc' = "merge"
    /\ UNCHANGED <<ev_token, ev_page, ev_fb_page, ev_fb_reqs, ev_fb_next, ev_fb_events,
                   ev_unique>>
    /\ UNCHANGED <<weekVars, ddVars, refVars, runVars, pureVars, seen_cache>>

\* lines 1154-1168
MergeEvents ==
    /\ ev_pc = "merge"
    /\ ev_unique' = merge_events(ev_combined)
    /\ ev_pc' = "done"
    /\ UNCHANGED <<ev_token, ev_page, ev_combined, ev_fb_page, ev_fb_reqs, ev_fb_next,
                   ev_fb_events>>
    /\ UNCHANGED <<weekVars, ddVars, refVars, runVars, pureVars, seen_cache>>

NextEvents ==
    \/ ScrapePage
    \/ PagesDone
    \/ FacebookSkip
    \/ FacebookRequest
    \/ FacebookDone
    \/ MergeEvents

SpecEvents == InitEvents /\ [][NextEvents]_vars

\* the same call when the interpreter keeps executing scrape_facebook_events
\* once it is called: no step of it that can be taken is put off for ever
FairSpecEvents ==
    /\ SpecEvents
    /\ WF_vars(FacebookSkip)
    /\ WF_vars(FacebookRequest)
    /\ WF_vars(FacebookDone)

-----------------------------------------------------------------------------
(* The run, part 1: configuration and the processing of feed entries       *)
(* lines 19-30, 113-167, 172-181, 212-336                                  *)

\* TODAY = datetime.now(TZ).date(): the day of the run
TODAY == DateBase + 10

\* PREV_MON, PREV_SUN = week_bounds(TODAY - timedelta(days=7))
PREV_MON == week_bounds(TODAY - 7)[1]
PREV_SUN == week_bounds(TODAY - 7)[2]

MIN_WORLD  == 5
MIN_CZSK   == 2
MIN_REDDIT == 2

\* the caps of the three dedupe calls (lines 1286-1288)
MAX_WORLD  == 20
MAX_CZSK   == 10
MAX_REDDIT == 8

POS == {"drum and bass", "drum'n'bass", "drum n bass", "dnb", "dn'b", "jungle",
        "neurofunk", "liquid", "jump up", "rollers", "ukf", "hospital records",
        "let it roll", "ram records", "blackout music", "shogun audio"}
NEG == {"techno", "tech house", "house", "trance", "edm pop", "electro house",
        "hardstyle", "psytrance", "deep house", "progressive house"}
CZSK_TOKENS == {"dnb", "drum and bass", "drum'n'bass", "drum n bass", "neuro",
                "liquid", "jump up", "let it roll"}

ALLOWLIST == {"mixmag.net", "ra.co", "ukf.com", "djmag.com", "edm.com",
              "dancingastronaut.com", "rollingstone.com.au", "billboard.com",
              "youtube.com", "youtu.be", "rave.cz", "musicserver.cz",
              "dogsonacid.com"}

SECONDARY_SITES == << <<"EDM.com", "edm.com">>,
                      <<"Dancing Astronaut", "dancingastronaut.com">>,
                      <<"Rolling Stone Australia", "rollingstone.com.au">>,
                      <<"Billboard", "billboard.com">> >>

\* str.endswith(suffix)
EndsWith(str, suffix) ==
    /\ Len(str) >= Len(suffix)
    /\ SubSeq(str, Len(str) - Len(suffix) + 1, Len(str)) = suffix

\* def google_news_feed(site, when_days): the URL of the query, the query
\* "site:<site> when:<n>d" as quote_plus encodes it; when_days is given as
\* its decimal digits
google_news_feed(site, when_days) ==
    LET cs   == EndsWith(site, ".cz") \/ EndsWith(site, ".sk")
                   \/ site \in {"rave.cz", "musicserver.cz"}
        tail == IF cs THEN "&hl=cs&gl=CZ&ceid=CZ:cs" ELSE "&hl=en-US&gl=US&ceid=US:en"
    IN  "https://news.google.com/rss/search?q="
            \o "site%3A" \o site \o "+when%3A" \o when_days \o "d" \o tail

\* def reddit_rss(sub)
reddit_rss(sub) == "https://old.reddit.com/r/" \o sub \o "/.rss"

\* str.find(sub) + 1: the first position of sub in str, 0 for none
IndexOf(str, sub) ==
    LET hits == {i \in 1 .. (Len(str) - Len(sub) + 1) : SubSeq(str, i, i + Len(sub) - 1) = sub}
    IN  IF hits = {} THEN 0 ELSE CHOOSE i \in hits : \A j \in hits : i <= j

\* str.partition(sep)[0] and [2]
Before(str, sep) ==
    LET i == IndexOf(str, sep)
    IN  IF i = 0 THEN str ELSE SubSeq(str, 1, i - 1)

After(str, sep) ==
    LET i == IndexOf(str, sep)
    IN  IF i = 0 THEN "" ELSE SubSeq(str, i + Len(sep), Len(str))

\* str.startswith(prefix)
StartsWith(str, prefix) ==
    Len(str) >= Len(prefix) /\ SubSeq(str, 1, Len(prefix)) = prefix

\* str.split(sep)
RECURSIVE Split(_, _)
Split(str, sep) ==
    IF IndexOf(str, sep) = 0 THEN <<str>>
    ELSE <<Before(str, sep)>> \o Split(After(str, sep), sep)

\* sep.join(parts)
RECURSIVE Join(_, _)
Join(parts, sep) ==
    IF parts = <<>> THEN ""
    ELSE IF Len(parts) = 1 THEN parts[1]
    ELSE parts[1] \o sep \o Join(Tail(parts), sep)

\* the labels of a host joined with dots
JoinDots(labels) == Join(labels, ".")

\* urlparse(url) for the URLs of the model: an optional scheme followed by
\* "://", then netloc, path, "?" query and "#" fragment; no ";" parameters.
\* The scheme is lowercased, the rest is kept as written.
urlparse(url) ==
    LET i      == IndexOf(url, "://")
        rest   == IF i = 0 THEN url ELSE SubSeq(url, i + 3, Len(url))
        nofrag == Before(rest, "#")
        noq    == Before(nofrag, "?")
        s      == IndexOf(noq, "/")
    IN  [scheme   |-> IF i = 0 THEN "" ELSE lower(SubSeq(url, 1, i - 1)),
         netloc   |-> IF i = 0 THEN "" ELSE IF s = 0 THEN noq ELSE SubSeq(noq, 1, s - 1),
         path     |-> IF i = 0 THEN noq ELSE IF s = 0 THEN "" ELSE SubSeq(noq, s, Len(noq)),
         query    |-> After(nofrag, "?"),
         fragment |-> After(rest, "#")]

\* the character a percent escape stands for (the escapes of the model)
Unescaped(esc) ==
    CASE esc = "%20" -> " " [] esc = "%23" -> "#" [] esc = "%25" -> "%"
      [] esc = "%26" -> "&" [] esc = "%2B" -> "+" [] esc = "%2F" -> "/"
      [] esc = "%3A" -> ":" [] esc = "%3D" -> "=" [] esc = "%3F" -> "?"
      [] esc = "%5F" -> "_" [] OTHER -> esc

\* urllib.parse.unquote(str)
RECURSIVE unquote(_)
unquote(str) ==
    IF str = "" THEN ""
    ELSE IF SubSeq(str, 1, 1) = "%" /\ Len(str) >= 3
    THEN Unescaped(SubSeq(str, 1, 3)) \o unquote(SubSeq(str, 4, Len(str)))
    ELSE SubSeq(str, 1, 1) \o unquote(SubSeq(str, 2, Len(str)))

\* str.replace("+", " ")
RECURSIVE PlusToSpace(_)
PlusToSpace(str) ==
    IF str = "" THEN ""
    ELSE (IF SubSeq(str, 1, 1) = "+" THEN " " ELSE SubSeq(str, 1, 1))
            \o PlusToSpace(SubSeq(str, 2, Len(str)))

\* urllib.parse.quote_plus(str): letters, digits and "_.-~" stay, a space
\* becomes "+", every other character its escape
QuotedChar(c) ==
    CASE c = " " -> "+"   [] c = "#" -> "%23" [] c = "%" -> "%25"
      [] c = "&" -> "%26" [] c = "+" -> "%2B" [] c = "/" -> "%2F"
      [] c = ":" -> "%3A" [] c = "=" -> "%3D" [] c = "?" -> "%3F"
      [] OTHER -> c

RECURSIVE quote_plus(_)
quote_plus(str) ==
    IF str = "" THEN ""
    ELSE QuotedChar(SubSeq(str, 1, 1)) \o quote_plus(SubSeq(str, 2, Len(str)))

\* the loop of parse_qsl and parse_qs: the dict built so far is a sequence of
\* records [k, v] in insertion order, v the list of the key's values.  A pair
\* without "=" or with an empty value is skipped (keep_blank_values=False),
\* name and value are decoded.
RECURSIVE AddValue(_, _, _)
AddValue(dict, k, v) ==
    IF dict = <<>> THEN << [k |-> k, v |-> <<v>>] >>
    ELSE IF Head(dict).k = k
    THEN << [k |-> k, v |-> Append(Head(dict).v, v)] >> \o Tail(dict)
    ELSE <<Head(dict)>> \o AddValue(Tail(dict), k, v)

RECURSIVE ParsePairs(_, _)
ParsePairs(pairs, dict) ==
    IF pairs = <<>> THEN dict
    ELSE LET nv == Head(pairs)
         IN  IF IndexOf(nv, "=") = 0 \/ After(nv, "=") = ""
             THEN ParsePairs(Tail(pairs), dict)
             ELSE ParsePairs(Tail(pairs),
                             AddValue(dict, unquote(PlusToSpace(Before(nv, "="))),
                                      unquote(PlusToSpace(After(nv, "=")))))

\* urllib.parse.parse_qs(query)
parse_qs(query) == ParsePairs(Split(query, "&"), <<>>)

\* qs[key], <<>> when key is not in qs
QsGet(qs, key) ==
    LET hits == {i \in 1 .. Len(qs) : qs[i].k = key}
    IN  IF hits = {} THEN <<>> ELSE qs[CHOOSE i \in hits : TRUE].v

\* def resolve_news_url(link)
resolve_news_url(link) ==
    LET u  == urlparse(link)
        vs == QsGet(parse_qs(u.query), "url")
    IN  IF EndsWith(u.netloc, "news.google.com") /\ vs # <<>>
        THEN unquote(vs[1])
        ELSE link

\* normalize_url that compares the parameter name without lower()
normalize_url_case_sensitive(u) ==
    LET p    == urlparse(u)
        qs   == SelectSeq(parse_qs(p.query), LAMBDA e : ~StartsWith(e.k, "utm_"))
        base == p.scheme \o "://" \o p.netloc \o p.path
    IN  IF p.scheme = "" \/ p.netloc = "" THEN u
        ELSE IF qs # <<>>
        THEN base \o "?"
               \o Join([i \in 1 .. Len(qs) |-> qs[i].k \o "=" \o quote_plus(qs[i].v[1])], "&")
        ELSE base

\* def normalize_url(u)
normalize_url(u) ==
    LET p    == urlparse(u)
        qs   == SelectSeq(parse_qs(p.query), LAMBDA e : ~StartsWith(lower(e.k), "utm_"))
        base == p.scheme \o "://" \o p.netloc \o p.path
    IN  IF p.scheme = "" \/ p.netloc = "" THEN u
        ELSE IF qs # <<>>
        THEN base \o "?"
               \o Join([i \in 1 .. Len(qs) |-> qs[i].k \o "=" \o quote_plus(qs[i].v[1])], "&")
        ELSE base

\* def clean_text(s): markup and surrounding white space removed
clean_text(str) ==
    CASE str = " <b>Neurofunk</b> night " -> "Neurofunk night"
      [] OTHER -> str

\* the outcome of get_best_date when line 122 raises
Raised == -2

\* def get_best_date(entry).  A date field is NoDate when absent or empty,
\* Unparseable when its conversion to TZ raises, else the timestamp.
\* Lines 114-119 swallow the exception, lines 120-122 do not.
get_best_date(entry) ==
    LET strs == <<entry.published, entry.updated, entry.created>>
        tups == <<entry.published_parsed, entry.updated_parsed>>
        okS  == {i \in 1 .. 3 : strs[i] # NoDate /\ strs[i] # Unparseable}
        setT == {i \in 1 .. 2 : tups[i] # NoDate}
        minS == CHOOSE i \in okS : \A j \in okS : i <= j
        minT == CHOOSE i \in setT : \A j \in setT : i <= j
    IN  IF okS # {} THEN strs[minS]
        ELSE IF setT = {} THEN NoDate
        ELSE IF tups[minT] = Unparseable THEN Raised
        ELSE tups[minT]

\* entry_to_item with "or now" behind get_best_date: an undated entry dated
\* to the start of the week
entry_to_item_dated_now(entry, source_label) ==
    LET dt == get_best_date(entry)
    IN  [eid |-> entry.eid,
         title |-> clean_text(entry.title),
         summary |-> clean_text(entry.summary),
         kws |-> entry.kws,
         curio |-> entry.curio,
         link |-> normalize_url(resolve_news_url(entry.link)),
         date |-> IF dt = NoDate THEN PREV_MON * SlotsPerDay ELSE dt,
         source |-> source_label]

\* def entry_to_item(entry, source_label).  kws stands for what the filters
\* read in the texts: the keywords text_keywords finds in the cleaned title
\* and summary; curio tells whether a key of pick_curiosity occurs in them.
\* eid names the entry the item was made from.
entry_to_item(entry, source_label) ==
    [eid |-> entry.eid,
     title |-> clean_text(entry.title),
     summary |-> clean_text(entry.summary),
     kws |-> entry.kws,
     curio |-> entry.curio,
     link |-> normalize_url(resolve_news_url(entry.link)),
     date |-> get_best_date(entry),
     source |-> source_label]

\* t = f"{title} {summary}".lower() and the tests "k in t" of is_dnb_related
\* and is_czsk_dnb: the keywords of the three lists that occur in t
text_keywords(title, summary) ==
    LET t == lower(title \o " " \o summary)
    IN  {k \in POS \cup NEG \cup CZSK_TOKENS : Contains(t, k)}

\* is_dnb_related that lets every item of an allowlisted host pass
is_dnb_related_allow_all(kws, url) ==
    LET host == lower(urlparse(url).netloc)
    IN  IF \E d \in ALLOWLIST : EndsWith(host, d)
        THEN TRUE
        ELSE kws \cap POS # {} /\ kws \cap NEG = {}

\* def is_dnb_related(title, summary, url), on the keywords of the text;
\* host is urlparse(url).netloc.lower()
is_dnb_related(kws, url) ==
    LET host == lower(urlparse(url).netloc)
    IN  IF \E d \in ALLOWLIST : EndsWith(host, d)
        THEN kws \cap NEG = {}
        ELSE kws \cap POS # {} /\ kws \cap NEG = {}

\* def is_czsk_dnb(title, summary), on the keywords of the text
is_czsk_dnb(kws) == kws \cap CZSK_TOKENS # {} /\ kws \cap NEG = {}

\* classify_section without the TLD sk
classify_section_cz_only(link) ==
    LET i1    == IndexOf(link, "http://")
        i2    == IndexOf(link, "https://")
        found == IF i1 = 0 THEN (IF i2 = 0 THEN ""
                                 ELSE Before(SubSeq(link, i2 + 8, Len(link)), "/"))
                 ELSE IF i2 = 0 \/ i1 < i2
                 THEN Before(SubSeq(link, i1 + 7, Len(link)), "/")
                 ELSE Before(SubSeq(link, i2 + 8, Len(link)), "/")
        host  == IF StartsWith(found, "www.") THEN SubSeq(found, 5, Len(found)) ELSE found
        parts == Split(host, ".")
        tld   == IF host = "" THEN "" ELSE parts[Len(parts)]
    IN  IF tld = "cz" \/ Contains(host, "rave.cz") \/ Contains(host, "musicserver.cz")
        THEN "czsk"
        ELSE "world"

\* def classify_section(entry, src_label, link): the host is what follows
\* the first "http://" or "https://" of link up to the next "/", without a
\* leading "www."; the TLD is its part after the last dot
classify_section(link) ==
    LET i1    == IndexOf(link, "http://")
        i2    == IndexOf(link, "https://")
        found == IF i1 = 0 THEN (IF i2 = 0 THEN ""
                                 ELSE Before(SubSeq(link, i2 + 8, Len(link)), "/"))
                 ELSE IF i2 = 0 \/ i1 < i2
                 THEN Before(SubSeq(link, i1 + 7, Len(link)), "/")
                 ELSE Before(SubSeq(link, i2 + 8, Len(link)), "/")
        host  == IF StartsWith(found, "www.") THEN SubSeq(found, 5, Len(found)) ELSE found
        parts == Split(host, ".")
        tld   == IF host = "" THEN "" ELSE parts[Len(parts)]
    IN  IF tld \in {"cz", "sk"} \/ Contains(host, "rave.cz")
           \/ Contains(host, "musicserver.cz")
        THEN "czsk"
        ELSE "world"

\* fetch_feed with one more retry of the fallback
fetch_feed_retry(first, second, body) ==
    IF first = "ok" THEN [feed |-> body, nreq |-> 1]
    ELSE IF second = "ok" THEN [feed |-> body, nreq |-> 2]
    ELSE [feed |-> <<>>, nreq |-> 3]

\* def fetch_feed(url): fetch(url), and on any exception feedparser.parse(url),
\* which requests the URL itself; on an exception there, None.  first and
\* second are the outcomes of the two requests, body the entries the server
\* holds; the result is feed.entries (empty for None) and the number of
\* requests issued.
fetch_feed(first, second, body) ==
    IF first = "ok" THEN [feed |-> body, nreq |-> 1]
    ELSE IF second = "ok" THEN [feed |-> body, nreq |-> 2]
    ELSE [feed |-> <<>>, nreq |-> 2]

\* def harvest_sites(sites, start_date, end_date), given what each site's
\* query returns: the dated, in-range, genre-related items.  No line of the
\* script calls it.
RECURSIVE harvest_entries(_, _, _, _)
harvest_entries(entries, label, start_date, end_date) ==
    IF entries = <<>> THEN <<>>
    ELSE LET it   == entry_to_item(Head(entries), label)
             rest == harvest_entries(Tail(entries), label, start_date, end_date)
         IN  IF it.date = NoDate THEN rest
             ELSE IF ~within(it.date, start_date, end_date) THEN rest
             ELSE IF ~is_dnb_related(it.kws, it.link) THEN rest
             ELSE <<it>> \o rest

RECURSIVE harvest_sites(_, _, _, _)
harvest_sites(sites, bodies, start_date, end_date) ==
    IF sites = <<>> THEN <<>>
    ELSE harvest_entries(fetch_feed("ok", "ok", Head(bodies)).feed, Head(sites)[1],
                         start_date, end_date)
            \o harvest_sites(Tail(sites), Tail(bodies), start_date, end_date)

\* def pick(items, need)
pick(items, need) == IF Len(items) >= need THEN SubSeq(items, 1, need) ELSE items

\* def pick_curiosity(cands): the first candidate with a key in its text,
\* else the first candidate, else None (<<>>)
pick_curiosity(cands) ==
    LET hits == {i \in 1 .. Len(cands) : cands[i].curio}
    IN  IF hits # {} THEN <<cands[CHOOSE i \in hits : \A j \in hits : i <= j]>>
        ELSE IF cands # <<>> THEN <<cands[1]>>
        ELSE <<>>

\* the add_ref calls of a list of blocks, in order: the globals afterwards
\* and the citation number of each block
RECURSIVE cite_all(_, _, _, _)
cite_all(cites, refs, map, idxs) ==
    IF cites = <<>> THEN [all_refs |-> refs, ref_map |-> map, idxs |-> idxs]
    ELSE LET r == add_ref(Head(cites)[1], Head(cites)[2], refs, map)
         IN  cite_all(Tail(cites), r.all_refs, r.ref_map, Append(idxs, r.idx))

\* build_section that shows whatever was selected, however few
build_section_any_count(items, min_needed) == items

\* def build_section(header, period, items, min_needed): the items shown;
\* <<>> stands for the placeholder line
build_section(items, min_needed) ==
    IF Len(items) < min_needed THEN <<>> ELSE items

\* def build_reddit_section(period, lst)
build_reddit_section(lst) ==
    IF Len(lst) < MIN_REDDIT THEN <<>> ELSE lst

-----------------------------------------------------------------------------
(* The run, part 2: the events section, lines 402-514 and 1097-1225        *)

EVENT_FUTURE_DAYS == 7

EVENT_KEYWORDS ==
    {"hospitality", "rampage", "liquicity", "dnb allstars", "allstars",
     "darkshire", "beats for love", "hoofbeats", "roxy", "epic", "korsakov",
     "hybrid minds", "imanu", "dimension", "etherwood", "sigma",
     "sub focus", "andy c", "netsky", "friction",
     "black sun empire", "camo & krooked", "bou", "sota",
     "kanine", "k-motionz", "merikan", "alix perez", "phace", "venjent", "akov"}

\* def event_is_priority(title, foreign_guest)
event_is_priority(title, foreign_guest) ==
    foreign_guest \/ (\E k \in EVENT_KEYWORDS : Contains(lower(title), k))

\* sorted(picked, key=lambda x: x["date"]): stable, ascending
RECURSIVE InsertAsc(_, _)
InsertAsc(it, sorted) ==
    IF sorted = <<>> THEN <<it>>
    ELSE IF it.date < Head(sorted).date THEN <<it>> \o sorted
    ELSE <<Head(sorted)>> \o InsertAsc(it, Tail(sorted))

RECURSIVE SortByDateAsc(_)
SortByDateAsc(lst) ==
    IF lst = <<>> THEN <<>>
    ELSE InsertAsc(lst[Len(lst)], SortByDateAsc(SubSeq(lst, 1, Len(lst) - 1)))

\* the loop of lines 503-510: the first item of each (title.lower(), day)
RECURSIVE UniqueLines(_, _)
UniqueLines(rest, seen) ==
    IF rest = <<>> THEN <<>>
    ELSE LET it == Head(rest)
             k  == <<lower(it.title), LocalDate(it.date)>>
         IN  IF k \in seen THEN UniqueLines(Tail(rest), seen)
             ELSE <<it>> \o UniqueLines(Tail(rest), seen \cup {k})

\* def scrape_dnbeheard_window(start_date, end_date), given the outcome of
\* the fetch and the lines parse_dnbeheard_lines finds under the month
\* headings of the window
scrape_dnbeheard_window(outcome, items, start_date, end_date) ==
    IF outcome # "ok" THEN <<>>
    ELSE LET picked == SelectSeq(items, LAMBDA it : within(it.date, start_date, end_date))
             unique == UniqueLines(SortByDateAsc(picked), {})
             pri    == SelectSeq(unique,
                                 LAMBDA x : event_is_priority(x.title, x.foreign_guest))
         IN  IF pri # <<>> THEN pri ELSE unique

\* the scraper loop of scrape_world_events_window over the pages of EvPages
RECURSIVE scrape_pages(_, _, _, _)
scrape_pages(pages, outcome, start_date, end_date) ==
    IF pages = <<>> THEN <<>>
    ELSE scrape_world_events_generic(outcome, Head(pages).records, Head(pages).source,
                                     Head(pages).base, start_date, end_date)
            \o scrape_pages(Tail(pages), outcome, start_date, end_date)

\* def scrape_world_events_window(start_date, end_date) without
\* FACEBOOK_ACCESS_TOKEN (scrape_facebook_events returns [] at once), every
\* listing page answering with the same outcome
scrape_world_events_window(outcome, start_date, end_date) ==
    merge_events(scrape_pages(EvPages, outcome, start_date, end_date))

\* the url of a world event as the string handed to add_ref
RECURSIVE JoinPath(_)
JoinPath(segs) == IF segs = <<>> THEN "" ELSE "/" \o Head(segs) \o JoinPath(Tail(segs))

EventUrlStr(url) == "https://" \o url.host \o JoinPath(url.path)

\* The lines of the DnBHeard calendar around the week of the run, as
\* parse_dnbeheard_lines returns them (midnight of the day in TZ)
DnbLines ==
    << [title |-> "Local Night", date |-> (PREV_MON + 4) * SlotsPerDay,
        link |-> "", city |-> "", foreign_guest |-> FALSE],
       [title |-> "Rampage", date |-> (PREV_MON + 2) * SlotsPerDay,
        link |-> "https://dnbeheard.cz/rampage", city |-> "Praha",
        foreign_guest |-> FALSE],
       [title |-> "RAMPAGE", date |-> (PREV_MON + 2) * SlotsPerDay,
        link |-> "https://dnbeheard.cz/rampage-2", city |-> "Praha",
        foreign_guest |-> FALSE],
       [title |-> "Local Night", date |-> (PREV_SUN + 3) * SlotsPerDay,
        link |-> "", city |-> "Brno", foreign_guest |-> FALSE] >>

\* the add_ref arguments of format_cz and format_world
CzCite(it)    == <<IF it.link # "" THEN it.link ELSE "https://dnbeheard.cz/kalendar-akci/",
                   "DnBHeard">>
WorldCite(it) == <<EventUrlStr(it.url), it.source>>

\* the add_ref arguments of format_news_block and format_reddit_block
NewsCite(it)  == <<it.link, it.source>>

\* the add_ref arguments of a list of blocks, in order
NewsCites(items)  == [i \in 1 .. Len(items) |-> NewsCite(items[i])]
CzCites(items)    == [i \in 1 .. Len(items) |-> CzCite(items[i])]
WorldCites(items) == [i \in 1 .. Len(items) |-> WorldCite(items[i])]

-----------------------------------------------------------------------------
(* The run, part 3: the script from the feed loop to the webhook,           *)
(* lines 1257-1407, with DNB_BRIEFING_SKIP_MAIN unset                      *)

\* the registry: one feed of each section, built as lines 268-308 build them
FEEDS ==
    << [name |-> "GoogleNews:Mixmag", section |-> "world",
        url |-> google_news_feed("mixmag.net", "14"), source_label |-> "Mixmag"],
       [name |-> "Rave.cz", section |-> "czsk",
        url |-> "https://www.rave.cz/feed/", source_label |-> "RAVE.cz"],
       [name |-> "Reddit:r/DnB", section |-> "reddit",
        url |-> reddit_rss("DnB"), source_label |-> "Reddit r/DnB"] >>

\* the URLs harvest_sites would request (line 369)
SecondaryUrls == {google_news_feed(SECONDARY_SITES[i][2], "28") : i \in 1 .. Len(SECONDARY_SITES)}

FeedUrls == {FEEDS[i].url : i \in 1 .. Len(FEEDS)}

\* a timestamp on day k of the target week (k = 0 is PREV_MON), at slot s
Ts(k, s) == (PREV_MON + k) * SlotsPerDay + s

\* a feed entry as feedparser yields it, with the keywords of its texts
Entry(eid, title, summary, curio, link, published, published_parsed) ==
    [eid |-> eid, title |-> title, summary |-> summary,
     kws |-> text_keywords(clean_text(title), clean_text(summary)),
     curio |-> curio, link |-> link,
     published |-> published, updated |-> NoDate, created |-> NoDate,
     published_parsed |-> published_parsed, updated_parsed |-> NoDate]

\* What the feeds can hold.  World: five related in-week entries (the first
\* behind the Google News wrapper), an undated one, one of the running week,
\* one of a Slovak site, and one whose only date raises at line 122.
WorldCatalog ==
    << Entry("w1", "Hospital Records sign", "hospital records", FALSE,
             "https://news.google.com/rss/articles/x1?url=https%3A%2F%2Fmixmag.net%2Fnews%2F1",
             Ts(6, 1), NoDate),
       Entry("w2", "Undated feature", "dnb", FALSE,
             "https://mixmag.net/news/2", NoDate, NoDate),
       Entry("w3", "Jungle AI study", "jungle", TRUE,
             "https://mixmag.net/news/3", Ts(5, 0), NoDate),
       Entry("w4", "Liquid mix", "liquid", FALSE,
             "https://mixmag.net/news/4", Unparseable, Ts(4, 0)),
       Entry("w5", "This week", "dnb", FALSE,
             "https://mixmag.net/news/5", Ts(7, 0), NoDate),
       Entry("w6", "Club report", "", FALSE,
             "https://mixmag.net/news/6", Ts(2, 1), NoDate),
       Entry("w7", " <b>Neurofunk</b> night ", "neurofunk", FALSE,
             "https://mixmag.net/news/7", Ts(1, 0), NoDate),
       Entry("w8", "Liquid noc", "liquid", FALSE,
             "https://dnbportal.sk/clanok/8", Ts(3, 1), NoDate),
       Entry("w9", "Year 9999", "dnb", FALSE,
             "https://mixmag.net/news/9", Unparseable, Unparseable) >>

\* Domestic: one entry that links to a foreign site with a tracking
\* parameter, three in-week entries, two outside the week, one of another
\* genre
CzskCatalog ==
    << Entry("z7", "Shogun Audio tour", "shogun audio", FALSE,
             "https://www.youtube.com/watch?v=7&utm_source=rave", Ts(2, 0), NoDate),
       Entry("z1", "DnB v Praze", "dnb", FALSE,
             "https://www.rave.cz/1", Ts(6, 0), NoDate),
       Entry("z2", "Minuly tyden", "dnb", FALSE,
             "https://www.rave.cz/2", Ts(-1, 1), NoDate),
       Entry("z3", "Let It Roll", "let it roll", FALSE,
             "https://www.rave.cz/3", Ts(3, 0), NoDate),
       Entry("z4", "Tento tyden", "liquid", FALSE,
             "https://www.rave.cz/4", Ts(7, 1), NoDate),
       Entry("z5", "Neuro noc", "neuro", FALSE,
             "https://www.rave.cz/5", Ts(0, 0), NoDate),
       Entry("z6", "Techno a dnb", "dnb techno", FALSE,
             "https://www.rave.cz/6", Ts(4, 1), NoDate) >>

RedditCatalog ==
    << Entry("r1", "Thread one", "", FALSE,
             "https://old.reddit.com/r/DnB/1", Ts(5, 1), NoDate),
       Entry("r5", "Thread of this week", "", FALSE,
             "https://old.reddit.com/r/DnB/5", Ts(8, 0), NoDate),
       Entry("r2", "Thread two", "", FALSE,
             "https://old.reddit.com/r/DnB/2", Ts(4, 1), NoDate),
       Entry("r3", "Thread three", "", FALSE,
             "https://old.reddit.com/r/DnB/3", Ts(2, 0), NoDate),
       Entry("r4", "Thread undated", "", FALSE,
             "https://old.reddit.com/r/DnB/4", NoDate, NoDate) >>

Prefixes(seq) == {SubSeq(seq, 1, n) : n \in 0 .. Len(seq)}

\* the entries a feed's server can hold at the time of the run: the first n
\* of its catalog
FeedBodies == << Prefixes(WorldCatalog), Prefixes(CzskCatalog), Prefixes(RedditCatalog) >>

\* the outcomes of fetch(url) and of feedparser.parse(url); the second
\* request is only issued after the first has failed
FetchOutcomes == { <<"ok", "none">>, <<"error", "ok">>, <<"error", "error">> }

\* line 1265 for every entry of feed.entries: the items entry_to_item makes
\* of them (an item whose date is Raised stands for the exception)
RECURSIVE entries_to_items(_, _)
entries_to_items(entries, source_label) ==
    IF entries = <<>> THEN <<>>
    ELSE <<entry_to_item(Head(entries), source_label)>>
            \o entries_to_items(Tail(entries), source_label)

\* the body of "for e in feed.entries" from line 1266 on, over the items of
\* the entries of feed f; acc holds the three lists, raised tells that
\* get_best_date raised and ended the loop
RECURSIVE feed_entries(_, _, _)
feed_entries(items, f, acc) ==
    IF items = <<>> THEN acc
    ELSE LET it   == Head(items)
             rest == Tail(items)
             sec  == classify_section(it.link)
             inwk == within(it.date, PREV_MON, PREV_SUN)
         IN  IF it.date = Raised THEN [acc EXCEPT !.raised = TRUE]
             ELSE IF it.date = NoDate THEN feed_entries(rest, f, acc)
             ELSE IF f.section = "reddit"
             THEN feed_entries(rest, f,
                      IF inwk THEN [acc EXCEPT !.reddit = Append(@, it)] ELSE acc)
             ELSE IF sec = "czsk" /\ ~is_czsk_dnb(it.kws) THEN feed_entries(rest, f, acc)
             ELSE IF sec # "czsk" /\ ~is_dnb_related(it.kws, it.link)
             THEN feed_entries(rest, f, acc)
             ELSE IF ~inwk THEN feed_entries(rest, f, acc)
             ELSE IF sec = "czsk"
             THEN feed_entries(rest, f, [acc EXCEPT !.czsk = Append(@, it)])
             ELSE feed_entries(rest, f, [acc EXCEPT !.world = Append(@, it)])

\* what the seen-event cache file holds when the run starts: an event of the
\* calendar, first seen thirty days before the run
SeenAtStart ==
    {[url |-> "https://dnbeheard.cz/rampage", first_seen |-> TODAY - 30]}

\* a rendered block: the item and the citation number add_ref returned
Blocks(items, idxs, off) ==
    [i \in 1 .. Len(items) |-> [it |-> items[i], ref |-> idxs[off + i]]]

-----------------------------------------------------------------------------
(* SpecFilter: the filters on every text and URL of a small set *)

FlTitles    == {"", "Jungle night", "TECHNO vs DnB", "Warehouse party",
                "Club report", "Neuro session"}
FlSummaries == {"", "liquid rollers", "a deep house set", "new single"}
FlUrls      == {"", "https://mixmag.net/a", "https://www.MixMag.net/a",
                "https://notmixmag.net/a", "https://mixmag.net.example.com/a",
                "https://example.com/a", "https://rave.cz/a",
                "https://klub.sk/a", "http://www.musicserver.cz.example.org/a"}

InitFilter ==
    /\ fl_in \in [title : FlTitles, summary : FlSummaries, url : FlUrls]
    /\ fl_out = <<>>
    /\ url_in = <<>> /\ url_out = <<>>
    /\ wk_d = 0 /\ wk_res = <<>> /\ wk_per = <<>>
    /\ dd_lst = <<>> /\ dd_maxn = 0 /\ dd_out = <<>> /\ dd_done = FALSE
    /\ all_refs = <<>> /\ ref_map = <<>> /\ ref_calls = <<>> /\ ref_rets = <<>>
    /\ ev_pc = "idle" /\ ev_token = FALSE /\ ev_page = 0 /\ ev_combined = <<>>
    /\ ev_fb_page = 0 /\ ev_fb_reqs = 0 /\ ev_fb_events = <<>> /\ ev_unique = <<>>
    /\ ev_fb_next = "events"
    /\ pc = "idle" /\ fi = 0 /\ reqs = <<>> /\ feed_log = <<>>
    /\ items_prev_world = <<>> /\ items_prev_czsk = <<>> /\ reddit_prev = <<>>
    /\ world_prev = <<>> /\ cz_prev = <<>> /\ rd_prev = <<>> /\ cur_prev = <<>>
    /\ md = <<>> /\ html_ready = FALSE /\ md_file = "old" /\ html_file = "old"
    /\ payload = <<>> /\ failed_at = "" /\ seen_cache = {}

\* is_dnb_related(title, summary, url), is_czsk_dnb(title, summary) and
\* classify_section(e, source, url) as lines 1273-1284 call them
CallFilters ==
    /\ fl_out = <<>>
    /\ fl_out' = [related |-> is_dnb_related(text_keywords(fl_in.title, fl_in.summary),
                                             fl_in.url),
                  czsk    |-> is_czsk_dnb(text_keywords(fl_in.title, fl_in.summary)),
                  section |-> classify_section(fl_in.url)]
    /\ UNCHANGED <<fl_in, url_in, url_out, weekVars, ddVars, refVars, evVars, runVars, seen_cache>>

-----------------------------------------------------------------------------
(* SpecUrl: the link functions on every link of a small set *)

\* most query parameters of a link
MaxParams == 2

UrlBases  == {"https://example.com/a", "HTTPS://E.com/a", "https://example.com",
              "https://news.google.com/rss/articles/x", "example.com/a"}
UrlParams == {"id=5", "q=a%20b", "utm_source=x", "UTM_Medium=y", "utm%5Fterm=z",
              "fbclid=Q", "gclid=G", "url=https://example.com/a",
              "url=https%3A%2F%2Fexample.com%2Fa%2520b"}
UrlFragments == {"", "#top"}

\* the link made of a base, its query parameters and a fragment
UrlOf(base, params, frag) ==
    base \o (IF params = <<>> THEN "" ELSE "?" \o Join(params, "&")) \o frag

InitUrl ==
    /\ url_in \in [base : UrlBases, params : SeqsUpTo(UrlParams, MaxParams),
                   frag : UrlFragments]
    /\ url_out = <<>>
    /\ fl_in = <<>> /\ fl_out = <<>>
    /\ wk_d = 0 /\ wk_res = <<>> /\ wk_per = <<>>
    /\ dd_lst = <<>> /\ dd_maxn = 0 /\ dd_out = <<>> /\ dd_done = FALSE
    /\ all_refs = <<>> /\ ref_map = <<>> /\ ref_calls = <<>> /\ ref_rets = <<>>
    /\ ev_pc = "idle" /\ ev_token = FALSE /\ ev_page = 0 /\ ev_combined = <<>>
    /\ ev_fb_page = 0 /\ ev_fb_reqs = 0 /\ ev_fb_events = <<>> /\ ev_unique = <<>>
    /\ ev_fb_next = "events"
    /\ pc = "idle" /\ fi = 0 /\ reqs = <<>> /\ feed_log = <<>>
    /\ items_prev_world = <<>> /\ items_prev_czsk = <<>> /\ reddit_prev = <<>>
    /\ world_prev = <<>> /\ cz_prev = <<>> /\ rd_prev = <<>> /\ cur_prev = <<>>
    /\ md = <<>> /\ html_ready = FALSE /\ md_file = "old" /\ html_file = "old"
    /\ payload = <<>> /\ failed_at = "" /\ seen_cache = {}

\* the item entry_to_item makes of an entry titled "T" with the given link
LinkItem(link) == entry_to_item(Entry("u", "T", "", FALSE, link, NoDate, NoDate), "")

\* resolve_news_url and normalize_url on the link, and the link and the
\* dedup key of the item entry_to_item makes of an entry with that link
CallLinkFunctions ==
    /\ url_out = <<>>
    /\ \E link \in {UrlOf(url_in.base, url_in.params, url_in.frag)} :
          url_out' = [resolved   |-> resolve_news_url(link),
                      normalized |-> normalize_url(link),
                      link       |-> LinkItem(link).link,
                      key        |-> uniq_key(LinkItem(link))]
    /\ UNCHANGED <<url_in, fl_in, fl_out, weekVars, ddVars, refVars, evVars, runVars, seen_cache>>

-----------------------------------------------------------------------------
(* Specifications of the pure parts *)

NextWeek == CallWeekBounds

SpecWeek == InitWeek /\ [][NextWeek]_vars

NextPeriod ==
    \/ CallWeekBounds
    \/ CallPeriodStr

SpecPeriod == InitPeriod /\ [][NextPeriod]_vars

NextDedupe == CallDedupe

SpecDedupe == InitDedupe /\ [][NextDedupe]_vars

NextRefs == CallAddRef

SpecRefs == InitRefs /\ [][NextRefs]_vars

NextFilter == CallFilters

SpecFilter == InitFilter /\ [][NextFilter]_vars

NextUrl == CallLinkFunctions

SpecUrl == InitUrl /\ [][NextUrl]_vars

-----------------------------------------------------------------------------
(* Spec: one run of the script *)

Init ==
    /\ pc = "feeds"
    /\ fi = 1
    /\ reqs = [u \in FeedUrls \cup SecondaryUrls |-> 0]
    /\ feed_log = <<>>
    /\ items_prev_world = <<>> /\ items_prev_czsk = <<>> /\ reddit_prev = <<>>
    /\ world_prev = <<>> /\ cz_prev = <<>> /\ rd_prev = <<>> /\ cur_prev = <<>>
    /\ md = <<>> /\ html_ready = FALSE /\ md_file = "old" /\ html_file = "old"
    /\ payload = <<>>
    /\ failed_at = ""
    /\ seen_cache = SeenAtStart
    /\ fl_in = <<>> /\ fl_out = <<>> /\ url_in = <<>> /\ url_out = <<>>
    /\ all_refs = <<>> /\ ref_map = <<>> /\ ref_calls = <<>> /\ ref_rets = <<>>
    /\ wk_d = 0 /\ wk_res = <<>> /\ wk_per = <<>>
    /\ dd_lst = <<>> /\ dd_maxn = 0 /\ dd_out = <<>> /\ dd_done = FALSE
    /\ ev_pc = "idle" /\ ev_token = FALSE /\ ev_page = 0 /\ ev_combined = <<>>
    /\ ev_fb_page = 0 /\ ev_fb_reqs = 0 /\ ev_fb_events = <<>> /\ ev_unique = <<>>
    /\ ev_fb_next = "events"

\* one pass of "for f in FEEDS" (lines 1260-1284): the feed is fetched and its
\* entries are sorted into the three lists; an exception of get_best_date
\* leaves the loop and the script
FeedStep ==
    /\ pc = "feeds"
    /\ fi <= Len(FEEDS)
    /\ \E o \in FetchOutcomes, body \in FeedBodies[fi] :
       \E f \in {FEEDS[fi]}, r \in {fetch_feed(o[1], o[2], body)} :
         \E its \in {entries_to_items(r.feed, f.source_label)} :
         \E acc \in {feed_entries(its, f,
                                  [world |-> items_prev_world, czsk |-> items_prev_czsk,
                                   reddit |-> reddit_prev, raised |-> FALSE])} :
             /\ reqs' = [reqs EXCEPT ![f.url] = @ + r.nreq]
             /\ feed_log' = Append(feed_log,
                                   [first |-> o[1], second |-> o[2], served |-> r.feed])
             /\ items_prev_world' = acc.world
             /\ items_prev_czsk' = acc.czsk
             /\ reddit_prev' = acc.reddit
             /\ IF acc.raised
                THEN pc' = "crashed" /\ failed_at' = "get_best_date" /\ fi' = fi
                ELSE /\ pc' = IF fi = Len(FEEDS) THEN "select" ELSE "feeds"
                     /\ fi' = fi + 1
                     /\ failed_at' = failed_at
    /\ UNCHANGED <<selVars, outVars, payload, weekVars, ddVars, refVars, evVars, pureVars, seen_cache>>

\* lines 1286-1292 and 1325: the three dedupe calls, the picks, the curiosity
Select ==
    /\ pc = "select"
    /\ \E w \in {dedupe(items_prev_world, MAX_WORLD)},
          c \in {dedupe(items_prev_czsk, MAX_CZSK)},
          r \in {dedupe(reddit_prev, MAX_REDDIT)} :
         LET k == pick_curiosity(w)
         IN
           /\ items_prev_world' = w
           /\ items_prev_czsk' = c
           /\ reddit_prev' = r
           /\ world_prev' = pick(w, MIN_WORLD)
           /\ cz_prev' = pick(c, MIN_CZSK)
           /\ rd_prev' = pick(r, IF MIN_REDDIT > 3 THEN MIN_REDDIT ELSE 3)
           /\ cur_prev' = IF k # <<>> THEN k ELSE pick_curiosity(c)
    /\ pc' = "render"
    /\ UNCHANGED <<fi, reqs, feed_log, outVars, payload, failed_at,
                   weekVars, ddVars, refVars, evVars, pureVars, seen_cache>>

\* the four scrapes of build_events_section(PREV_MON, PREV_SUN), lines
\* 1177-1183, per outcome of the requests to the DnBHeard calendar and to the
\* event listing pages
EventLists ==
    LET next_start == PREV_SUN + 1
        next_end   == next_start + EVENT_FUTURE_DAYS - 1
    IN  [dn \in {"ok", "http_error"}, wo \in {"ok", "http_error"} |->
            [cz_prev    |-> scrape_dnbeheard_window(dn, DnbLines, PREV_MON, PREV_SUN),
             cz_next    |-> scrape_dnbeheard_window(dn, DnbLines, next_start, next_end),
             world_prev |-> scrape_world_events_window(wo, PREV_MON, PREV_SUN),
             world_next |-> scrape_world_events_window(wo, next_start, next_end)]]

\* lines 1339-1353: the sections in document order, the events section with
\* its four scrapes, the reference list.  newly holds the events listed under
\* "Nově oznámené": lines 1213-1214 write the heading and the placeholder.  dn and wo are the outcomes of the
\* requests to the DnBHeard calendar and to the event listing pages.
Render ==
    /\ pc = "render"
    /\ \E dn \in {"ok", "http_error"}, wo \in {"ok", "http_error"} :
         LET sw         == build_section(world_prev, MIN_WORLD)
             sc         == build_section(cz_prev, MIN_CZSK)
             sr         == build_reddit_section(rd_prev)
         IN
         \E ecp \in {EventLists[dn, wo].cz_prev},
            ecn \in {EventLists[dn, wo].cz_next},
            ewp \in {EventLists[dn, wo].world_prev},
            ewn \in {EventLists[dn, wo].world_next} :
         \E cites \in {NewsCites(sw) \o NewsCites(sc) \o NewsCites(sr)
                          \o NewsCites(cur_prev)
                          \o CzCites(ecp) \o CzCites(ecn)
                          \o WorldCites(ewp) \o WorldCites(ewn)} :
         \E r \in {cite_all(cites, all_refs, ref_map, <<>>)} :
         LET parts  == <<sw, sc, sr, cur_prev, ecp, ecn, ewp, ewn>>
             off(n) == IF n = 1 THEN 0
                       ELSE Len(parts[1]) + (IF n = 2 THEN 0
                       ELSE Len(parts[2]) + (IF n = 3 THEN 0
                       ELSE Len(parts[3]) + (IF n = 4 THEN 0
                       ELSE Len(parts[4]) + (IF n = 5 THEN 0
                       ELSE Len(parts[5]) + (IF n = 6 THEN 0
                       ELSE Len(parts[6]) + (IF n = 7 THEN 0
                       ELSE Len(parts[7])))))))
         IN  /\ md' = [world      |-> Blocks(sw, r.idxs, off(1)),
                       czsk       |-> Blocks(sc, r.idxs, off(2)),
                       reddit     |-> Blocks(sr, r.idxs, off(3)),
                       curio      |-> Blocks(cur_prev, r.idxs, off(4)),
                       cz_prev    |-> Blocks(ecp, r.idxs, off(5)),
                       cz_next    |-> Blocks(ecn, r.idxs, off(6)),
                       world_prev |-> Blocks(ewp, r.idxs, off(7)),
                       world_next |-> Blocks(ewn, r.idxs, off(8)),
                       newly      |-> <<>>,
                       refs       |-> refs_lines(r.all_refs)]
             /\ all_refs' = r.all_refs
             /\ ref_map' = r.ref_map
             /\ ref_calls' = ref_calls \o [i \in 1 .. Len(cites) |-> cites[i][1]]
             /\ ref_rets' = ref_rets \o r.idxs
    /\ pc' = "write_md"
    /\ UNCHANGED <<fi, reqs, feed_log, listVars, selVars, html_ready, md_file, html_file,
                   payload, failed_at, weekVars, ddVars, evVars, pureVars, seen_cache>>

\* lines 1356-1358: docs/index.md is opened for writing and written
WriteMd ==
    /\ pc = "write_md"
    /\ md_file' = "new"
    /\ pc' = "convert"
    /\ UNCHANGED <<fi, reqs, feed_log, listVars, selVars, md, html_ready, html_file,
                   payload, failed_at, weekVars, ddVars, refVars, evVars, pureVars, seen_cache>>

\* the same lines when the write raises (OSError): the file is truncated
WriteMdFails ==
    /\ pc = "write_md"
    /\ md_file' = "partial"
    /\ pc' = "crashed"
    /\ failed_at' = "write_md"
    /\ UNCHANGED <<fi, reqs, feed_log, listVars, selVars, md, html_ready, html_file,
                   payload, weekVars, ddVars, refVars, evVars, pureVars, seen_cache>>

\* line 1380: md_to_html(markdown_out)
Convert ==
    /\ pc = "convert"
    /\ html_ready' = TRUE
    /\ pc' = "write_html"
    /\ UNCHANGED <<fi, reqs, feed_log, listVars, selVars, md, md_file, html_file,
                   payload, failed_at, weekVars, ddVars, refVars, evVars, pureVars, seen_cache>>

\* line 1380 when md_to_html raises
ConvertFails ==
    /\ pc = "convert"
    /\ pc' = "crashed"
    /\ failed_at' = "md_to_html"
    /\ UNCHANGED <<fi, reqs, feed_log, listVars, selVars, outVars,
                   payload, weekVars, ddVars, refVars, evVars, pureVars, seen_cache>>

\* lines 1382-1383: docs/index.html is opened for writing and written
WriteHtml ==
    /\ pc = "write_html"
    /\ html_file' = "new"
    /\ pc' = "webhook"
    /\ UNCHANGED <<fi, reqs, feed_log, listVars, selVars, md, html_ready, md_file,
                   payload, failed_at, weekVars, ddVars, refVars, evVars, pureVars, seen_cache>>

\* the same lines when the write raises
WriteHtmlFails ==
    /\ pc = "write_html"
    /\ html_file' = "partial"
    /\ pc' = "crashed"
    /\ failed_at' = "write_html"
    /\ UNCHANGED <<fi, reqs, feed_log, listVars, selVars, md, html_ready, md_file,
                   payload, weekVars, ddVars, refVars, evVars, pureVars, seen_cache>>

\* lines 1388-1407: with both environment variables set the payload is built
\* (the blocks are formatted again, from the picks) and posted; an exception
\* of the post is caught
Webhook ==
    /\ pc = "webhook"
    /\ \E configured \in BOOLEAN :
         IF configured
         THEN \E cites \in {NewsCites(world_prev) \o NewsCites(cz_prev)
                                \o NewsCites(rd_prev) \o NewsCites(cur_prev)} :
              \E r \in {cite_all(cites, all_refs, ref_map, <<>>)} :
              LET o2    == Len(world_prev)
                  o3    == o2 + Len(cz_prev)
                  o4    == o3 + Len(rd_prev)
              IN  /\ payload' = [world_prev     |-> Blocks(world_prev, r.idxs, 0),
                                 cz_prev        |-> Blocks(cz_prev, r.idxs, o2),
                                 reddit_prev    |-> Blocks(rd_prev, r.idxs, o3),
                                 curiosity_prev |-> Blocks(cur_prev, r.idxs, o4),
                                 sources        |-> refs_lines(r.all_refs)]
                  /\ all_refs' = r.all_refs
                  /\ ref_map' = r.ref_map
                  /\ ref_calls' = ref_calls \o [i \in 1 .. Len(cites) |-> cites[i][1]]
                  /\ ref_rets' = ref_rets \o r.idxs
         ELSE UNCHANGED <<payload, refVars>>
    /\ pc' = "done"
    /\ UNCHANGED <<fi, reqs, feed_log, listVars, selVars, outVars, failed_at,
                   weekVars, ddVars, evVars, pureVars, seen_cache>>

Next ==
    \/ FeedStep
    \/ Select
    \/ Render
    \/ WriteMd
    \/ WriteMdFails
    \/ Convert
    \/ ConvertFails
    \/ WriteHtml
    \/ WriteHtmlFails
    \/ Webhook

Spec == Init /\ [][Next]_vars

-----------------------------------------------------------------------------
(* Claims about week_bounds, dedupe and add_ref *)

\* The duplicates of item i in a list: the positions holding the same title
\* and the same link.
SamePair(lst, i) ==
    {j \in 1 .. Len(lst) : lst[j].title = lst[i].title /\ lst[j].link = lst[i].link}

MaxDate(lst, S) == CHOOSE d \in {lst[j].date : j \in S} : \A j \in S : lst[j].date <= d

\* C1: with no cap, when two or more input items have the same title and the
\* same link, the output of dedupe holds exactly one item with that
\* (title, link), and it carries the latest timestamp among those duplicates.
C1_DuplicatesCollapseToLatest ==
    (dd_done /\ dd_maxn = 0) =>
        \A i \in 1 .. Len(dd_lst) :
            Cardinality(SamePair(dd_lst, i)) >= 2 =>
                LET kept == {k \in 1 .. Len(dd_out) :
                                /\ dd_out[k].title = dd_lst[i].title
                                /\ dd_out[k].link = dd_lst[i].link}
                IN  /\ Cardinality(kept) = 1
                    /\ \A k \in kept :
                          dd_out[k].date = MaxDate(dd_lst, SamePair(dd_lst, i))

\* "" is cited as about:blank
CitedUrl(url) == IF url = "" THEN "about:blank" ELSE url

\* the distinct cited URLs of a sequence of calls, in order of first call
RECURSIVE FirstSeen(_)
FirstSeen(calls) ==
    IF calls = <<>> THEN <<>>
    ELSE LET before == FirstSeen(SubSeq(calls, 1, Len(calls) - 1))
             u      == CitedUrl(calls[Len(calls)])
         IN  IF u \in SeqToSet(before) THEN before ELSE Append(before, u)

\* C4: after any sequence of add_ref calls every distinct URL has exactly one
\* citation number, the numbers are 1..n without gaps in order of each URL's
\* first call, the number every past call returned is still the URL's number,
\* and entry i of the reference list is the URL numbered i ("" is cited as
\* about:blank).
C4_CitationNumbering ==
    LET n    == Len(all_refs)
        urls == [i \in 1 .. n |-> all_refs[i][2]]
    IN  /\ urls = FirstSeen(ref_calls)
        /\ DOMAIN ref_map = SeqToSet(urls)
        /\ \A i \in 1 .. n :
              /\ ref_map[urls[i]] = i
              /\ refs_lines(all_refs)[i] = <<i, urls[i]>>
        /\ Len(ref_rets) = Len(ref_calls)
        /\ \A c \in 1 .. Len(ref_calls) :
              ref_rets[c] = ref_map[CitedUrl(ref_calls[c])]

\* C4 witness: a URL cited twice, the empty URL cited, and a second URL
\* cited after them.
C4_Witness ==
    /\ Len(all_refs) >= 2
    /\ \E c1, c2 \in 1 .. Len(ref_calls) : c1 < c2 /\ ref_calls[c1] = ref_calls[c2]
    /\ \E c \in 1 .. Len(ref_calls) : ref_calls[c] = ""

KeyText(it) == it.title \o it.link

\* the newest date among the items of dd_lst that share the key of it
NewestOfKey(it) ==
    LET ds == {dd_lst[i].date : i \in {i \in 1 .. Len(dd_lst) : KeyText(dd_lst[i]) = KeyText(it)}}
    IN  CHOOSE d \in ds : \A e \in ds : e <= d

\* C17: with a cap maxn >= 1 dedupe returns at most maxn items, one per dedup
\* key and as many as the cap and the number of keys allow, each an item of
\* the input and the newest of its key, sorted newest first, and no item left
\* out for the cap is newer than the oldest item returned.
C17_DedupeCap ==
    (dd_done /\ dd_maxn >= 1) =>
        LET keys == {KeyText(dd_lst[i]) : i \in 1 .. Len(dd_lst)}
            n    == Len(dd_out)
        IN  /\ n <= dd_maxn
            /\ n = IF Cardinality(keys) < dd_maxn THEN Cardinality(keys) ELSE dd_maxn
            /\ \A i, j \in 1 .. n : i < j =>
                  /\ KeyText(dd_out[i]) # KeyText(dd_out[j])
                  /\ dd_out[i].date >= dd_out[j].date
            /\ \A i \in 1 .. n :
                  /\ dd_out[i] \in SeqToSet(dd_lst)
                  /\ dd_out[i].date = NewestOfKey(dd_out[i])
            /\ \A i \in 1 .. Len(dd_lst) :
                  (\A j \in 1 .. n : KeyText(dd_out[j]) # KeyText(dd_lst[i])) =>
                      dd_lst[i].date <= dd_out[n].date

\* C17 witness: dedupe has returned two of three items with three keys, given
\* in another order than newest first, under a cap of two.
C17_Witness ==
    /\ dd_done /\ dd_maxn = 2
    /\ Len(dd_lst) = 3 /\ Len(dd_out) = 2
    /\ Cardinality({KeyText(dd_lst[i]) : i \in 1 .. 3}) = 3
    /\ dd_lst[1].date < dd_lst[3].date

-----------------------------------------------------------------------------
(* Claims about the event records *)

\* C5: every event record that an extraction path produces, and every event
\* of the list scrape_world_events_window returns, has end_date >= start_date,
\* also when the source gave an end earlier than the start.
C5_EventDatesOrdered ==
    /\ \A i \in 1 .. Len(ev_combined) :
          ev_combined[i].end_date >= ev_combined[i].start_date
    /\ \A i \in 1 .. Len(ev_fb_events) :
          ev_fb_events[i].end_date >= ev_fb_events[i].start_date
    /\ \A i \in 1 .. Len(ev_unique) :
          ev_unique[i].end_date >= ev_unique[i].start_date

\* The same for the records of build_event_from_raw alone: the listing pages.
C5_PageEventDatesOrdered ==
    \A i \in 1 .. Len(ev_combined) :
        ev_combined[i].source # "Facebook Hospitality" =>
            ev_combined[i].end_date >= ev_combined[i].start_date

-----------------------------------------------------------------------------
(* Claims about the run *)

\* the entries the feeds have served so far
ServedEntries ==
    UNION {SeqToSet(feed_log[i].served) : i \in 1 .. Len(feed_log)}

ItemEids(items)   == {items[i].eid : i \in 1 .. Len(items)}
BlockEids(blocks) == {blocks[i].it.eid : i \in 1 .. Len(blocks)}

\* the selection has been made: the script is past line 1292
Selected == pc \in {"render", "write_md", "convert", "write_html", "webhook", "done"}

\* C2: whenever the primary feeds have yielded fewer than MIN_WORLD
\* international items of the target week after filtering and dedup, the run
\* has queried the secondary site list (every URL of harvest_sites over
\* SECONDARY_SITES has been requested) by the time the selection is made.
C2_SecondaryTopUp ==
    (Selected /\ Len(items_prev_world) < MIN_WORLD) =>
        \A u \in SecondaryUrls : reqs[u] >= 1

\* the domestic items the feeds have yielded: classified czsk, passing the
\* domestic filter, dated inside the target week, in the order served
RECURSIVE DomesticYield(_)
DomesticYield(i) ==
    IF i > Len(feed_log) THEN <<>>
    ELSE feed_entries(entries_to_items(feed_log[i].served, FEEDS[i].source_label),
                      FEEDS[i],
                      [world |-> <<>>, czsk |-> <<>>, reddit |-> <<>>,
                       raised |-> FALSE]).czsk
            \o DomesticYield(i + 1)

\* C3: when the feeds yield k domestic items with distinct dedup keys dated
\* inside the target week (and any number outside it), the rendered domestic
\* section contains exactly those k items, newest first, and no out-of-week
\* item.
C3_DomesticSectionShowsInWeekItems ==
    LET yield == DomesticYield(1)
        keys  == {uniq_key(yield[i]) : i \in 1 .. Len(yield)}
        want  == SortByDateDesc(yield)
    IN  (md # <<>> /\ Cardinality(keys) = Len(yield)) =>
            [i \in 1 .. Len(md.czsk) |-> md.czsk[i].it.eid]
                = [i \in 1 .. Len(want) |-> want[i].eid]

\* the entries for which get_best_date returns None
Undated == {e \in ServedEntries : get_best_date(e) = NoDate}

\* C7: an entry for which get_best_date returns None is in none of the three
\* week lists, in none of the picks, not the curiosity, in no rendered
\* section of the document and in no section of the webhook payload.
C7_UndatedNeverShown ==
    LET undated == {e.eid : e \in Undated}
        lists   == ItemEids(items_prev_world) \cup ItemEids(items_prev_czsk)
                      \cup ItemEids(reddit_prev)
        picks   == ItemEids(world_prev) \cup ItemEids(cz_prev) \cup ItemEids(rd_prev)
                      \cup ItemEids(cur_prev)
        shown   == IF md = <<>> THEN {}
                   ELSE BlockEids(md.world) \cup BlockEids(md.czsk)
                           \cup BlockEids(md.reddit) \cup BlockEids(md.curio)
        posted  == IF payload = <<>> THEN {}
                   ELSE BlockEids(payload.world_prev) \cup BlockEids(payload.cz_prev)
                           \cup BlockEids(payload.reddit_prev)
                           \cup BlockEids(payload.curiosity_prev)
    IN  undated \cap (lists \cup picks \cup shown \cup posted) = {}

\* C7 witness: the run is done, an international and a social feed each
\* served an undated entry, and the international section, the social
\* section and the curiosity are rendered with items.
C7_Witness ==
    /\ pc = "done"
    /\ \E e \in Undated : e.eid = "w2"
    /\ \E e \in Undated : e.eid = "r4"
    /\ md.world # <<>> /\ md.reddit # <<>> /\ md.curio # <<>>

\* C8: the run is never ended by an exception raised while a feed is fetched
\* or its entries are parsed; a feed whose requests fail contributes nothing.
C8_NoCrashFromSingleSource ==
    /\ ~(pc = "crashed" /\ failed_at = "get_best_date")
    /\ \A i \in 1 .. Len(feed_log) :
          (feed_log[i].first # "ok" /\ feed_log[i].second # "ok") =>
              feed_log[i].served = <<>>

\* C9: no output file is written before every step that can fail has
\* finished: while md_to_html has not returned, docs/index.md and
\* docs/index.html are both as the earlier run left them.
C9_NoFileBeforePipelineCompletes ==
    ~html_ready => (md_file = "old" /\ html_file = "old")

-----------------------------------------------------------------------------
(* Claims about the filters and the link functions *)

\* the lowercased text "title summary" the filters search
FlText == lower(fl_in.title \o " " \o fl_in.summary)

\* whether the host of the URL handed to the filters ends with an
\* allowlisted domain
FlAllowlisted ==
    \E d \in ALLOWLIST : EndsWith(lower(urlparse(fl_in.url).netloc), d)

\* C11: is_dnb_related accepts an item of an allowlisted host iff its
\* lowercased title and summary contain no negative keyword, and an item of
\* any other host iff they contain a positive keyword and no negative one;
\* an item with a negative keyword is never accepted.
C11_GenreFilter ==
    fl_out # <<>> =>
        LET neg == \E k \in NEG : Contains(FlText, k)
            pos == \E k \in POS : Contains(FlText, k)
        IN  /\ FlAllowlisted => (fl_out.related <=> ~neg)
            /\ ~FlAllowlisted => (fl_out.related <=> (pos /\ ~neg))
            /\ neg => ~fl_out.related

\* C11 witness: an item of an allowlisted host with a positive and a
\* negative keyword in its text has been rejected.
C11_Witness ==
    /\ fl_out # <<>>
    /\ FlAllowlisted
    /\ Contains(FlText, "techno") /\ Contains(FlText, "dnb")
    /\ ~fl_out.related


\* whether a query parameter as written in a link is a utm_* parameter
IsUtm(param) == StartsWith(lower(unquote(Before(param, "="))), "utm_")

\* the names of the query parameters of a link
ParamNames(link) ==
    LET q == Before(After(link, "?"), "#")
    IN  IF q = "" THEN {} ELSE {lower(unquote(Before(p, "="))) : p \in SeqToSet(Split(q, "&"))}

\* C14: for a URL with a scheme and a host, normalize_url gives the result it
\* gives for the same URL without its utm_* parameters (whatever their letter
\* case) and without its fragment; the result holds no utm_* parameter and no
\* fragment; ?utm_source=x&id=5 normalizes to what ?id=5 normalizes to.
C14_UtmStripped ==
    (url_out # <<>> /\ IndexOf(url_in.base, "://") > 1) =>
        LET kept == SelectSeq(url_in.params, LAMBDA p : ~IsUtm(p))
        IN  /\ url_out.normalized = normalize_url(UrlOf(url_in.base, kept, url_in.frag))
            /\ url_out.normalized = normalize_url(UrlOf(url_in.base, kept, ""))
            /\ \A n \in ParamNames(url_out.normalized) : ~StartsWith(n, "utm_")
            /\ IndexOf(url_out.normalized, "#") = 0
            /\ (url_in.base = "https://example.com/a"
                    /\ url_in.params = <<"utm_source=x", "id=5">>) =>
                   url_out.normalized = "https://example.com/a?id=5"

\* C14 witness: normalize_url has been applied to a URL with a scheme, a
\* host, an upper-case utm parameter, another parameter and a fragment.
C14_Witness ==
    /\ url_out # <<>>
    /\ url_in = [base |-> "https://example.com/a",
                 params |-> <<"UTM_Medium=y", "id=5">>, frag |-> "#top"]
    /\ url_out.normalized = "https://example.com/a?id=5"

\* C15: the canonical link of an item (entry_to_item) holds no fbclid and no
\* gclid query parameter, and it is the canonical link, with the same dedup
\* key, of the URL that differs only by lacking those parameters.
C15_ClickIdsStripped ==
    (url_out # <<>> /\ IndexOf(url_in.base, "://") > 1) =>
        LET kept  == SelectSeq(url_in.params,
                               LAMBDA p : Before(p, "=") \notin {"fbclid", "gclid"})
            plain == LinkItem(UrlOf(url_in.base, kept, url_in.frag))
        IN  /\ ParamNames(url_out.link) \cap {"fbclid", "gclid"} = {}
            /\ url_out.link = plain.link
            /\ url_out.key = uniq_key(plain)

\* the value of the first url parameter with a value among the query
\* parameters of the link, decoded as a query value is; <<>> for none
UrlParamValue ==
    LET vals == SelectSeq(url_in.params, LAMBDA p : StartsWith(p, "url=") /\ Len(p) > 4)
    IN  IF vals = <<>> THEN <<>> ELSE <<unquote(PlusToSpace(After(vals[1], "=")))>>

\* C16: for a link whose host ends with news.google.com and whose query
\* carries a non-empty url parameter, resolve_news_url returns the decoded
\* value of that parameter; for every other link it returns the link.
C16_UnwrapsGoogleNews ==
    url_out # <<>> =>
        LET host == Before(After(url_in.base, "://"), "/")
        IN  IF EndsWith(host, "news.google.com") /\ UrlParamValue # <<>>
            THEN url_out.resolved = UrlParamValue[1]
            ELSE url_out.resolved = UrlOf(url_in.base, url_in.params, url_in.frag)
-----------------------------------------------------------------------------
(* Claims about the classification, the week filter and the sections *)

\* the lowercased text "title summary" of an item
ItemText(it) == lower(it.title \o " " \o it.summary)

HasKeyword(it, keywords) == \E k \in keywords : Contains(ItemText(it), k)

\* whether the host of a link is domestic: its TLD is cz or sk, or it
\* contains rave.cz or musicserver.cz
DomesticHost(link) ==
    LET host   == urlparse(link).netloc
        labels == Split(host, ".")
    IN  \/ labels[Len(labels)] \in {"cz", "sk"}
        \/ Contains(host, "rave.cz")
        \/ Contains(host, "musicserver.cz")

\* whether an item passes the filter of the bucket its link host decides
PassesRegionFilter(it) ==
    IF DomesticHost(it.link)
    THEN HasKeyword(it, CZSK_TOKENS) /\ ~HasKeyword(it, NEG)
    ELSE /\ ~HasKeyword(it, NEG)
         /\ \/ HasKeyword(it, POS)
            \/ \E d \in ALLOWLIST : EndsWith(lower(urlparse(it.link).netloc), d)

\* every entry the non-social feeds can serve, as item, by its eid
NewsEntries == SeqToSet(WorldCatalog) \cup SeqToSet(CzskCatalog)

NewsItemOf ==
    [id \in {e.eid : e \in NewsEntries} |->
        entry_to_item(CHOOSE e \in NewsEntries : e.eid = id, "")]

\* per entry: whether its link host is domestic, whether it passes the
\* filter of its host's bucket, whether it is dated inside the target week
RegionOf ==
    [id \in DOMAIN NewsItemOf |->
        LET it == NewsItemOf[id]
        IN  [domestic |-> DomesticHost(it.link),
             passes   |-> PassesRegionFilter(it),
             in_week  |-> it.date # NoDate /\ it.date # Raised
                             /\ within(it.date, PREV_MON, PREV_SUN)]]

\* the entries of the non-social feeds that the loop of lines 1264-1284 has
\* handled: those served before an entry whose date raised
HandledEids ==
    UNION { {feed_log[i].served[j].eid : j \in
                {j \in 1 .. Len(feed_log[i].served) :
                    \A k \in 1 .. j : NewsItemOf[feed_log[i].served[k].eid].date # Raised}}
            : i \in {i \in 1 .. Len(feed_log) : FEEDS[i].section # "reddit"} }

DateOf ==
    [id \in {e.eid : e \in NewsEntries \cup SeqToSet(RedditCatalog)} |->
        get_best_date(CHOOSE e \in NewsEntries \cup SeqToSet(RedditCatalog) : e.eid = id)]

\* the Monday of the week that contains today
ThisMonday == TODAY - weekday(TODAY)

\* whether a rendered block carries the date of its entry and that date's
\* calendar day lies in the seven days before ThisMonday
InPreviousWeek(block) ==
    /\ block.it.date = DateOf[block.it.eid]
    /\ ThisMonday - 7 <= block.it.date \div SlotsPerDay
    /\ block.it.date \div SlotsPerDay <= ThisMonday - 1

\* C13: every item rendered in the international, the domestic or the social
\* section is dated, in local time, inside the Monday..Sunday week before the
\* week that contains today.
C13_RenderedItemsInTargetWeek ==
    md # <<>> =>
        /\ \A i \in 1 .. Len(md.world)  : InPreviousWeek(md.world[i])
        /\ \A i \in 1 .. Len(md.czsk)   : InPreviousWeek(md.czsk[i])
        /\ \A i \in 1 .. Len(md.reddit) : InPreviousWeek(md.reddit[i])

\* C13 witness: the run is done, every feed served an entry dated outside
\* the target week (the day before it, the days after it), and the three
\* sections are rendered with items.
C13_Witness ==
    /\ pc = "done"
    /\ {"w5", "z2", "z4", "r5"} \subseteq {e.eid : e \in ServedEntries}
    /\ md.world # <<>> /\ md.czsk # <<>> /\ md.reddit # <<>>


\* whether the blocks of a section are the placeholder (no block) when fewer
\* than min_needed items were selected and else one block per selected item,
\* in order
ShownAsSelected(blocks, selected, min_needed) ==
    IF Len(selected) < min_needed
    THEN blocks = <<>>
    ELSE [i \in 1 .. Len(blocks) |-> blocks[i].it] = selected

\* C18: a news section shows the placeholder and no item exactly when fewer
\* items were selected for it than its minimum (5, 2, 2) and else every
\* selected item; the international section therefore shows the placeholder
\* or 5 items, the domestic one the placeholder or 2, the social one the
\* placeholder, 2 or 3.
C18_PlaceholderBelowMinimum ==
    md # <<>> =>
        /\ ShownAsSelected(md.world, world_prev, 5)
        /\ ShownAsSelected(md.czsk, cz_prev, 2)
        /\ ShownAsSelected(md.reddit, rd_prev, 2)
        /\ Len(md.world) \in {0, 5}
        /\ Len(md.czsk) \in {0, 2}
        /\ Len(md.reddit) \in {0, 2, 3}

\* C18 witness: the run is done with six international items in the week
\* list and five shown, three social items shown, and the placeholder in the
\* domestic section although one domestic item was selected.
C18_Witness ==
    /\ pc = "done"
    /\ Len(items_prev_world) = 6 /\ Len(md.world) = 5
    /\ Len(md.reddit) = 3
    /\ Len(cz_prev) = 1 /\ md.czsk = <<>>


\* whether the title of a rendered event names a brand or headliner of
\* EVENT_KEYWORDS
NamesBrand(block) == \E k \in EVENT_KEYWORDS : Contains(lower(block.it.title), k)

\* whether a list of rendered events holds no low-priority event next to a
\* priority one
OnlyPriorityIfAny(blocks, priority) ==
    (\E i \in 1 .. Len(blocks) : priority[i]) => (\A i \in 1 .. Len(blocks) : priority[i])

\* C19: in each of the four rendered event lists (domestic and international,
\* past week and current week), when an event of the list names a brand or
\* headliner, or is flagged as having a foreign guest, no event of the list
\* that does neither is rendered.
C19_LowPriorityDropped ==
    md # <<>> =>
        /\ OnlyPriorityIfAny(md.cz_prev,
               [i \in 1 .. Len(md.cz_prev) |->
                   md.cz_prev[i].it.foreign_guest \/ NamesBrand(md.cz_prev[i])])
        /\ OnlyPriorityIfAny(md.cz_next,
               [i \in 1 .. Len(md.cz_next) |->
                   md.cz_next[i].it.foreign_guest \/ NamesBrand(md.cz_next[i])])
        /\ OnlyPriorityIfAny(md.world_prev,
               [i \in 1 .. Len(md.world_prev) |-> NamesBrand(md.world_prev[i])])
        /\ OnlyPriorityIfAny(md.world_next,
               [i \in 1 .. Len(md.world_next) |-> NamesBrand(md.world_next[i])])


\* the URLs of the events rendered in the four event lists
RenderedEventUrls ==
    {CzCite(md.cz_prev[i].it)[1] : i \in 1 .. Len(md.cz_prev)}
        \cup {CzCite(md.cz_next[i].it)[1] : i \in 1 .. Len(md.cz_next)}
        \cup {WorldCite(md.world_prev[i].it)[1] : i \in 1 .. Len(md.world_prev)}
        \cup {WorldCite(md.world_next[i].it)[1] : i \in 1 .. Len(md.world_next)}

\* C20: when the run is done, every rendered event is in the seen-event cache
\* file, either first seen before this run or first seen today and listed
\* under "Nově oznámené", and only events first seen today are listed there.
C20_NewlyAnnounced ==
    pc = "done" =>
        /\ \A u \in RenderedEventUrls :
              \E r \in seen_cache :
                 /\ r.url = u
                 /\ \/ r.first_seen < TODAY
                    \/ r.first_seen = TODAY /\ u \in SeqToSet(md.newly)
        /\ \A u \in SeqToSet(md.newly) :
              \E r \in seen_cache : r.url = u /\ r.first_seen = TODAY


-----------------------------------------------------------------------------
(* Claims about the world event list *)

\* an event of Resident Advisor with a location and an event URL of its own
RaEventOk(ev) ==
    ev.source = "Resident Advisor" =>
        /\ ev.location # ""
        /\ ev.url.path # <<>>
        /\ \E i \in 1 .. Len(ev.url.path) :
              SubSeq(ev.url.path[i], 1, 6) = "events"

\* the records a listing page can hold that have a title and a date inside
\* the window
DatedRecords(pg) ==
    {pg.records[i] : i \in {j \in 1 .. Len(pg.records) :
        /\ pg.records[j].name # ""
        /\ ensure_date_value(pg.records[j].start) \in EvStart .. EvEnd}}

\* C21: every Resident Advisor event that scrape_world_events_window collects
\* and returns has a location and a URL whose path contains "/events"; a
\* Resident Advisor record without a URL of its own or without a location
\* gives no event, and a record of any other source gives its event with or
\* without a location.
C21_ResidentAdvisorFilter ==
    /\ \A i \in 1 .. Len(ev_combined) : RaEventOk(ev_combined[i])
    /\ \A i \in 1 .. Len(ev_unique) : RaEventOk(ev_unique[i])
    /\ ev_pc = "pages" /\ ev_page <= Len(EvPages) =>
          \A r \in DatedRecords(EvPages[ev_page]) :
             \E out \in {scrape_world_events_generic("ok", <<r>>,
                             EvPages[ev_page].source, EvPages[ev_page].base,
                             EvStart, EvEnd)} :
                IF EvPages[ev_page].source = "Resident Advisor"
                   /\ (r.url = <<>> \/ r.location = "")
                THEN out = <<>>
                ELSE IF EvPages[ev_page].source # "Resident Advisor"
                THEN Len(out) = 1 /\ out[1].location = r.location
                ELSE Len(out) = 1

\* the call has returned a Resident Advisor event and a promoter's event
\* without a location
C21_Witness ==
    /\ ev_pc = "done"
    /\ \E i \in 1 .. Len(ev_unique) : ev_unique[i].source = "Resident Advisor"
    /\ \E i \in 1 .. Len(ev_unique) :
          ev_unique[i].source = "Hospitality" /\ ev_unique[i].location = ""


\* the identity of an event in the returned list
C24Key(ev) == <<lower(ev.title), lower(ev.location), ev.start_date, ev.end_date>>

\* C24: the list scrape_world_events_window returns holds no two events with
\* the same (lowercased title, lowercased location, start_date, end_date) and
\* is sorted by start_date, then by lowercased title; every collected event
\* has its key in the list.  This holds also when a record was collected more
\* than once.
C24_WorldEventsUniqueAndSorted ==
    ev_pc = "done" =>
        /\ \A i, j \in 1 .. Len(ev_unique) :
              i < j =>
                 /\ C24Key(ev_unique[i]) # C24Key(ev_unique[j])
                 /\ \/ ev_unique[i].start_date < ev_unique[j].start_date
                    \/ /\ ev_unique[i].start_date = ev_unique[j].start_date
                       /\ StrRank(lower(ev_unique[i].title))
                             <= StrRank(lower(ev_unique[j].title))
        /\ \A i \in 1 .. Len(ev_combined) :
              \E k \in 1 .. Len(ev_unique) :
                 C24Key(ev_unique[k]) = C24Key(ev_combined[i])
        /\ \A k \in 1 .. Len(ev_unique) :
              \E i \in 1 .. Len(ev_combined) : ev_combined[i] = ev_unique[k]

\* the call has returned after one event was collected from two pages of
\* Resident Advisor (with different capitals) and from Facebook, and another
\* twice from the same page
C24_Witness ==
    /\ ev_pc = "done"
    /\ Len(ev_unique) >= 2
    /\ \E i, j, k \in 1 .. Len(ev_combined) :
          /\ ev_combined[i].title = "Rampage"
          /\ ev_combined[i].source = "Resident Advisor"
          /\ ev_combined[j].title = "RAMPAGE"
          /\ ev_combined[k].title = "Rampage"
          /\ ev_combined[k].source = "Facebook Hospitality"
    /\ \E i, j \in 1 .. Len(ev_combined) :
          i < j /\ ev_combined[i] = ev_combined[j]

-----------------------------------------------------------------------------
(* Claims about the webhook payload *)

\* C22: when the payload was posted, it agrees with the written document: a
\* section that shows the placeholder in docs/index.md is sent as the
\* placeholder and not as item blocks, and the posted source list is the
\* reference list the document ends with.
C22_PayloadAgreesWithDocument ==
    pc = "done" /\ payload # <<>> /\ md_file = "new" =>
        /\ md.world = <<>> => payload.world_prev = <<>>
        /\ md.czsk = <<>> => payload.cz_prev = <<>>
        /\ md.reddit = <<>> => payload.reddit_prev = <<>>
        /\ md.curio = <<>> => payload.curiosity_prev = <<>>
        /\ payload.sources = md.refs

\* the part of it that holds: a section that shows its items in the document
\* is sent with the same blocks, and the document's reference list is the
\* beginning of the posted source list
C22_PayloadExtendsDocument ==
    pc = "done" /\ payload # <<>> /\ md_file = "new" =>
        /\ md.world # <<>> => payload.world_prev = md.world
        /\ md.czsk # <<>> => payload.cz_prev = md.czsk
        /\ md.reddit # <<>> => payload.reddit_prev = md.reddit
        /\ payload.curiosity_prev = md.curio
        /\ Len(md.refs) <= Len(payload.sources)
        /\ SubSeq(payload.sources, 1, Len(md.refs)) = md.refs


-----------------------------------------------------------------------------
(* Claims about the dedup key *)

\* C23: with no cap, dedupe drops an item only if an item it keeps has
\* exactly the same title and exactly the same link, so every (title, link)
\* pair of the input is the pair of an item of the output, also when the
\* concatenations title+link of two different pairs are the same string.
C23_OnlySamePairDropped ==
    (dd_done /\ dd_maxn = 0) =>
        \A i \in 1 .. Len(dd_lst) :
            \E k \in 1 .. Len(dd_out) :
                /\ dd_out[k].title = dd_lst[i].title
                /\ dd_out[k].link = dd_lst[i].link

\* the part of it that holds: an item is dropped only if an item that is kept
\* has the same concatenation title+link
C23_OnlySameConcatenationDropped ==
    (dd_done /\ dd_maxn = 0) =>
        \A i \in 1 .. Len(dd_lst) :
            \E k \in 1 .. Len(dd_out) :
                dd_out[k].title \o dd_out[k].link = dd_lst[i].title \o dd_lst[i].link


-----------------------------------------------------------------------------
(* Claims about the period of the headings *)

\* the two dates a printed period denotes, each as <<year, month, day>>: the
\* short form gives one month and one year for both days
Denoted(text) ==
    IF Len(text) = 4
    THEN << <<text[4], text[3], text[1]>>, <<text[4], text[3], text[2]>> >>
    ELSE << <<text[3], text[2], text[1]>>, <<text[6], text[5], text[4]>> >>

\* C25: for a Monday-Sunday week (a, b) the text of period_str(a, b) denotes
\* the same two dates as the text of fmt_date_range(a, b), the start a and
\* the end b, also when the week runs over the end of a month or of a year.
C25_PeriodDenotesWeek ==
    wk_per # <<>> =>
        /\ Denoted(wk_per.period_str) = Denoted(wk_per.fmt_date_range)
        /\ Denoted(wk_per.period_str) =
              << <<year(wk_res[1]), month(wk_res[1]), day(wk_res[1])>>,
                 <<year(wk_res[2]), month(wk_res[2]), day(wk_res[2])>> >>

\* the part of it that holds: fmt_date_range denotes the week, and so does
\* period_str for a week inside one month
C25_PeriodInsideOneMonth ==
    wk_per # <<>> =>
        /\ Denoted(wk_per.fmt_date_range) =
              << <<year(wk_res[1]), month(wk_res[1]), day(wk_res[1])>>,
                 <<year(wk_res[2]), month(wk_res[2]), day(wk_res[2])>> >>
        /\ month(wk_res[1]) = month(wk_res[2]) =>
              wk_per.period_str = wk_per.fmt_date_range


-----------------------------------------------------------------------------
(* Claims about the Facebook pagination *)

\* C26: scrape_facebook_events terminates whatever the server answers: once
\* it is called it returns, and scrape_world_events_window goes on to merge
\* the collected events.
C26_FacebookTerminates == (ev_pc = "facebook") ~> (ev_pc = "merge")

\* the part of it that holds.  Without a token no request is issued and no
\* event collected; a step of the pagination never loses an event collected
\* before, and a failed request or a response without paging.next moves on
\* to the next page.
C26_NoTokenNoRequest ==
    ~ev_token => ev_fb_events = <<>> /\ ev_fb_reqs = 0 /\ ev_fb_page = 1

C26_EventsKept ==
    [][/\ Len(ev_fb_events') >= Len(ev_fb_events)
       /\ SubSeq(ev_fb_events', 1, Len(ev_fb_events)) = ev_fb_events
       /\ ev_fb_page' \in {ev_fb_page, ev_fb_page + 1}
       /\ ev_fb_next' = "events" /\ ev_pc = "facebook" /\ ev_pc' = "facebook"
             => ev_fb_page' = ev_fb_page + 1]_vars

\* and the call returns when the server does not go on naming a next page
\* for ever
C26_TerminatesWhenPagingEnds ==
    []<>(ev_fb_next = "events") => ((ev_pc = "facebook") ~> (ev_pc = "merge"))

=============================================================================
